---------------------------- MODULE Spec2Model ----------------------------
(***************************************************************************)
(* Model of the kiwi-tv acquisition and stream-proxy pipeline:             *)
(*   - resilientFetch / fetchWithTimeout   (src/services/tvService.ts)     *)
(*   - the /stream-proxy gateway handlers  (src/server.js,                 *)
(*     src/api/stream-proxy.ts, src/unnamed/part_002, src/unnamed/part_003)*)
(*   - the HLS manifest rewrite done by the gateway handlers               *)
(*   - a player following a playlist tree through the gateway             *)
(*   - parseEpgDate, fetchEpg, fetchChannels (src/services/tvService.ts)   *)
(*   - App.loadData                          (src/App.tsx)                 *)
(* Text is modelled as a sequence of tokens: a token is one delimiter      *)
(* character or a maximal run of other characters, so that concatenation,  *)
(* prefix tests, percent-encoding and URL resolution are computed.         *)
(***************************************************************************)
EXTENDS Integers, Sequences, FiniteSets, TLC

VARIABLES
    \* ---- resilientFetch (one logical call at a time) ----
    fpc,        \* position of the call: "idle","issue","await","returned","raised"
    cand,       \* index of the candidate the loop is at (NumProxies+1 = direct)
    lastError,  \* message of the local `lastError` (<<>> models null)
    result,     \* what the call gave its caller
    inflight,   \* candidates whose request is in flight
    timers,     \* candidates whose deadline timer is armed
    aborted,    \* the current attempt's AbortController signal
    requests,   \* log: candidates a request was issued to, in order, this call
    outcomes,   \* log: how each attempt of this call ended
    texts,      \* log: the failure message each failed attempt produced
    calls,      \* number of finished calls
    prevGood,   \* log: candidate that answered the previous call (0: none)
    \* ---- manifest rewrite (one manifest through one handler) ----
    rpc,        \* "idle", "fetched" (text read), "rewritten"
    rimpl,      \* the handler: "server" (server.js) or "vercel" (api/stream-proxy.ts)
    rtarget,    \* the target URL the manifest was fetched from
    rmanifest,  \* the fetched manifest
    rout,       \* the manifest the handler sends
    \* ---- gateway (one request at a time through one handler) ----
    gpc,        \* "idle", "fetch", "read", "stream", "done"
    gimpl,      \* the handler that serves the request
    greq,       \* the request's query
    gtarget,    \* the handler's local targetUrl
    gfetched,   \* log: the URLs fetch was called with for this request
    gup,        \* the upstream response
    gfate,      \* log: "none", "rejected", "answered", "readfail", "streamfail"
    gnread,     \* pieces of the upstream body consumed so far
    gres,       \* the client response
    gserved,    \* number of finished requests
    gconn,      \* the upstream connection: "none", "open", "drained", "closed"
    gclient,    \* the client's connection: "connected", "gone"
    gfwd,       \* the request's query parameters other than url
    gsent,      \* the headers option of the handler's fetch call
    \* ---- a player following a playlist tree through the gateway ----
    cpc,        \* "idle", "request", "loaded", "done", "failed"
    cimpl,      \* the handler the gateway runs
    cdepth,     \* number of playlist levels of the origin's tree
    curl,       \* the URL the player requests next / has loaded
    chops,      \* log: one record per request the player made
    \* ---- parseEpgDate (one call) ----
    dpc,        \* "idle", "given", "parsed"
    dfields,    \* the date-time and offset the timestamp was written from
    dstr,       \* the argument dateStr
    ddate,      \* the value returned
    \* ---- fetchEpg (one call at a time) ----
    epc,        \* "idle", "fetch", "text", "loop", "returned", "raised"
    edoc,       \* the payload the source serves
    ei,         \* position of the loop over programmeNodes
    epgData,    \* the local epgData
    ecount,     \* the locals processedCount and skippedCount
    eresult,    \* what the call gave its caller
    efail,      \* log: what made the call raise ("none", "fetch", "text", "xml")
    eprev,      \* log: what the previous call gave its caller
    ecalls,     \* number of calls before the current one
    \* ---- fetchChannels (one call) ----
    kpc,        \* "idle", "fetch", "text", "returned", "raised"
    kdir,       \* the body the source serves
    kresult,    \* what the call gave its caller
    kfail,      \* log: what made the call raise ("none", "fetch", "text", "read")
    \* ---- App.loadData (one load at a time) ----
    apc,        \* "off", "mounted", "await", "finished"
    achannels,  \* the state channels (ids of the catalog shown)
    aepg,       \* the state epg (channel keys of the guide shown)
    loading,    \* the state loading
    error,      \* the state error (<<>> models null)
    active,     \* the state activeChannelId (<<>> models null)
    chf,        \* the promise of fetchChannels() of the current load
    epf,        \* the promise of fetchEpg() of the current load
    pall,       \* the promise Promise.all made of the two
    atStart,    \* log: channels and epg when the current load started
    loads       \* number of loads started

gatewayVars == <<gpc, gimpl, greq, gtarget, gfetched, gup, gfate, gnread, gres, gserved,
                 gconn, gclient, gfwd, gsent>>

rewriteVars == <<rpc, rimpl, rtarget, rmanifest, rout>>

fetchVars == <<fpc, cand, lastError, result, inflight, timers, aborted,
               requests, outcomes, texts, calls, prevGood>>

chainVars == <<cpc, cimpl, cdepth, curl, chops>>

dateVars == <<dpc, dfields, dstr, ddate>>

epgVars == <<epc, edoc, ei, epgData, ecount, eresult, efail, eprev, ecalls>>

catalogVars == <<kpc, kdir, kresult, kfail>>

appVars == <<apc, achannels, aepg, loading, error, active, chf, epf, pall, atStart, loads>>

vars == <<fetchVars, rewriteVars, gatewayVars, chainVars, dateVars, epgVars, catalogVars,
          appVars>>

\* what the actions of one part leave alone
notFetch   == <<rewriteVars, gatewayVars, chainVars, dateVars, epgVars, catalogVars, appVars>>
notRewrite == <<fetchVars, gatewayVars, chainVars, dateVars, epgVars, catalogVars, appVars>>
notGateway == <<fetchVars, rewriteVars, chainVars, dateVars, epgVars, catalogVars, appVars>>
notChain   == <<fetchVars, rewriteVars, gatewayVars, dateVars, epgVars, catalogVars, appVars>>
notDate    == <<fetchVars, rewriteVars, gatewayVars, chainVars, epgVars, catalogVars, appVars>>
notEpg     == <<fetchVars, rewriteVars, gatewayVars, chainVars, dateVars, catalogVars, appVars>>
notCatalog == <<fetchVars, rewriteVars, gatewayVars, chainVars, dateVars, epgVars, appVars>>
notApp     == <<fetchVars, rewriteVars, gatewayVars, chainVars, dateVars, epgVars, catalogVars>>

(***************************************************************************)
(* Bounds                                                                  *)
(***************************************************************************)
MaxCalls == 2

(***************************************************************************)
(* Generic helpers on token sequences                                      *)
(***************************************************************************)
Last(s) == s[Len(s)]

\* sub occurs in s as a contiguous run (String.prototype.includes)
Contains(s, sub) ==
    \E i \in 0..(Len(s) - Len(sub)) :
        \A j \in 1..Len(sub) : s[i + j] = sub[j]

StartsWith(s, p) == Len(s) >= Len(p) /\ SubSeq(s, 1, Len(p)) = p

EndsWith(s, p) == Len(s) >= Len(p) /\ SubSeq(s, Len(s) - Len(p) + 1, Len(s)) = p

\* index of the last token t of s, 0 when there is none (lastIndexOf + 1)
LastIndexOf(s, t) ==
    IF \E i \in 1..Len(s) : s[i] = t
    THEN CHOOSE i \in 1..Len(s) : s[i] = t /\ \A j \in (i + 1)..Len(s) : s[j] # t
    ELSE 0

\* index of the first token t of s at or after position from, 0 when none
IndexFrom(s, t, from) ==
    IF \E i \in from..Len(s) : s[i] = t
    THEN CHOOSE i \in from..Len(s) : s[i] = t /\ \A j \in from..(i - 1) : s[j] # t
    ELSE 0

RECURSIVE Flatten(_)
Flatten(ss) == IF ss = <<>> THEN <<>> ELSE Head(ss) \o Flatten(Tail(ss))

\* Response.ok
IsOk(s) == s >= 200 /\ s <= 299

\* s is an absolute http(s) URL, one that fetch accepts
IsAbsoluteUrl(s) ==
    /\ Len(s) >= 4
    /\ s[1] \in {"http", "https"}
    /\ SubSeq(s, 2, 4) = <<":", "/", "/">>

\* str.startsWith('http'): the words of the model that begin with "http"
StartsWithHttp(s) == Len(s) >= 1 /\ s[1] \in {"http", "https"}

EncodeToken(t) ==
    CASE t = ":"  -> "%3A"
      [] t = "/"  -> "%2F"
      [] t = "?"  -> "%3F"
      [] t = "="  -> "%3D"
      [] t = "#"  -> "%23"
      [] t = ","  -> "%2C"
      [] t = "\"" -> "%22"
      [] t = "\n" -> "%0A"
      [] OTHER    -> t

\* encodeURIComponent: reserved characters become %XX, the rest is kept
encodeURIComponent(s) == [i \in 1..Len(s) |-> EncodeToken(s[i])]

DecodeToken(t) ==
    CASE t = "%3A" -> ":"
      [] t = "%2F" -> "/"
      [] t = "%3F" -> "?"
      [] t = "%3D" -> "="
      [] t = "%23" -> "#"
      [] t = "%2C" -> ","
      [] t = "%22" -> "\""
      [] t = "%0A" -> "\n"
      [] OTHER     -> t

decodeURIComponent(s) == [i \in 1..Len(s) |-> DecodeToken(s[i])]

(***************************************************************************)
(* new URL(rel, base).href for http(s) URLs                                *)
(* a URL is  scheme : / / host... / path... [? query]                      *)
(***************************************************************************)
\* number of tokens of scheme://host
OriginLen(u) ==
    LET slash == IndexFrom(u, "/", 5)
        q     == IndexFrom(u, "?", 5)
    IN  IF slash # 0 THEN slash - 1
        ELSE IF q # 0 THEN q - 1 ELSE Len(u)

Origin(u) == SubSeq(u, 1, OriginLen(u))

\* s without its query
NoQuery(s) ==
    LET q == IndexFrom(s, "?", 1) IN IF q = 0 THEN s ELSE SubSeq(s, 1, q - 1)

\* the query of s with its leading "?", or nothing
QueryOf(s) ==
    LET q == IndexFrom(s, "?", 1) IN IF q = 0 THEN <<>> ELSE SubSeq(s, q, Len(s))

PathOf(u) == NoQuery(SubSeq(u, OriginLen(u) + 1, Len(u)))

\* the segments of a path: "/a/b.ts" is <<a, b.ts>>, "/a/" is <<a, empty>>
RECURSIVE SplitSegs(_, _, _)
SplitSegs(toks, cur, acc) ==
    IF toks = <<>> THEN Append(acc, cur)
    ELSE IF Head(toks) = "/" THEN SplitSegs(Tail(toks), <<>>, Append(acc, cur))
    ELSE SplitSegs(Tail(toks), Append(cur, Head(toks)), acc)

\* segments of an absolute path (the empty piece before its first "/" dropped)
Segments(path) ==
    IF path = <<>> THEN <<>>
    ELSE LET all == SplitSegs(path, <<>>, <<>>)
         IN  IF Head(path) = "/" THEN Tail(all) ELSE all

ButLast(s) == IF s = <<>> THEN s ELSE SubSeq(s, 1, Len(s) - 1)

\* remove "." and ".." segments
RECURSIVE NormSegs(_, _)
NormSegs(segs, acc) ==
    IF segs = <<>> THEN acc
    ELSE LET s    == Head(segs)
             rest == Tail(segs)
         IN  IF s = <<".">>
             THEN NormSegs(rest, IF rest = <<>> THEN Append(acc, <<>>) ELSE acc)
             ELSE IF s = <<".", ".">>
             THEN NormSegs(rest, IF rest = <<>> THEN Append(ButLast(acc), <<>>)
                                                ELSE ButLast(acc))
             ELSE NormSegs(rest, Append(acc, s))

JoinSegs(segs) ==
    IF segs = <<>> THEN <<"/">>
    ELSE Flatten([i \in 1..Len(segs) |-> <<"/">> \o segs[i]])

\* new URL(rel, base).href
ResolveUrl(rel, base) ==
    IF rel = <<>> THEN base
    ELSE IF StartsWithHttp(rel) /\ Len(rel) >= 2 /\ rel[2] = ":" THEN rel
    ELSE IF StartsWith(rel, <<"/", "/">>) THEN <<base[1], ":">> \o rel
    ELSE IF rel[1] = "/"
         THEN Origin(base) \o JoinSegs(NormSegs(Segments(NoQuery(rel)), <<>>))
                           \o QueryOf(rel)
    ELSE IF rel[1] = "?" THEN Origin(base) \o PathOf(base) \o rel
    ELSE Origin(base)
           \o JoinSegs(NormSegs(ButLast(Segments(PathOf(base)))
                                  \o Segments(NoQuery(rel)), <<>>))
           \o QueryOf(rel)

(***************************************************************************)
(* Manifest rewrite of the gateway handlers                                *)
(* a manifest is the sequence of its lines (text split at "\n")            *)
(***************************************************************************)
port == 3001

\* `http://localhost:${port}/stream-proxy?url=`
ServerGatewayPrefix ==
    <<"http", ":", "/", "/", "localhost", ":", ToString(port), "/", "stream-proxy",
      "?", "url", "=">>

MediaExts == {"ts", "aac", "mp4", "m4s", "m3u8"}

\* baseUrl = targetUrl.substring(0, targetUrl.lastIndexOf('/') + 1)
ServerBaseUrl(target) == SubSeq(target, 1, LastIndexOf(target, "/"))

\* `http://localhost:${port}/stream-proxy?url=${encodeURIComponent(baseUrl + ref)}`
ServerProxied(ref, base) == ServerGatewayPrefix \o encodeURIComponent(base \o ref)

\* first replace of server.js: /(URI=)(["']?)([^"'\s,]*?)(["']?)/g. The lazy
\* third group followed by an optional fourth always matches the empty string,
\* so the callback sees p3 = "" and the proxied URL of baseUrl alone is put
\* between the opening quote and the attribute's value.
RECURSIVE RewriteUriAttrs(_, _)
RewriteUriAttrs(line, base) ==
    IF Len(line) < 2 THEN line
    ELSE IF line[1] = "URI" /\ line[2] = "="
    THEN LET q    == IF Len(line) >= 3 /\ line[3] \in {"\"", "'"}
                     THEN <<line[3]>> ELSE <<>>
             rest == SubSeq(line, 3 + Len(q), Len(line))
         IN  <<"URI", "=">> \o q \o ServerProxied(<<>>, base)
                 \o RewriteUriAttrs(rest, base)
    ELSE <<Head(line)>> \o RewriteUriAttrs(Tail(line), base)

\* the line ends in  \.(ts|aac|mp4|m4s|m3u8)(\?.*)?  with the dot at token
\* minDot or later
HasMediaTail(line, minDot) ==
    \E p \in minDot..(Len(line) - 1) :
        /\ line[p] = "."
        /\ line[p + 1] \in MediaExts
        /\ (p + 1 = Len(line) \/ line[p + 2] = "?")

\* second replace of server.js: /(^[^#].*\.(?:ts|aac|mp4|m4s|m3u8)(?:\?.*)?$)/gm.
\* [^#] also matches the newline that ends an empty line, so an empty line
\* followed by a line with a media tail is matched together with that line.
RECURSIVE ServerPass2(_, _)
ServerPass2(lines, base) ==
    IF lines = <<>> THEN <<>>
    ELSE LET l == Head(lines)
         IN  IF l # <<>> /\ l[1] # "#" /\ HasMediaTail(l, 2)
             THEN <<IF StartsWithHttp(l) THEN l ELSE ServerProxied(l, base)>>
                      \o ServerPass2(Tail(lines), base)
             ELSE IF l = <<>> /\ Len(lines) >= 2 /\ HasMediaTail(lines[2], 1)
             THEN <<ServerProxied(<<"\n">> \o lines[2], base)>>
                      \o ServerPass2(Tail(Tail(lines)), base)
             ELSE <<l>> \o ServerPass2(Tail(lines), base)

\* server.js: both replaces over the manifest text
ServerRewrite(manifest, target) ==
    LET base == ServerBaseUrl(target)
    IN  ServerPass2([i \in 1..Len(manifest) |-> RewriteUriAttrs(manifest[i], base)],
                    base)

\* api/stream-proxy.ts: manifestBaseUrl = new URL('.', new URL(targetUrl)).href
VercelManifestBase(target) == ResolveUrl(<<".">>, target)

\* api/stream-proxy.ts: the map callback over the lines
VercelRewriteLine(line, mbase) ==
    IF line # <<>> /\ line[1] # "#" /\ ~StartsWithHttp(line)
    THEN ResolveUrl(line, mbase)
    ELSE line

VercelRewrite(manifest, target) ==
    [i \in 1..Len(manifest) |-> VercelRewriteLine(manifest[i], VercelManifestBase(target))]

\* the handlers that rewrite manifest references
RewritingImpls == {"server", "vercel"}

RewriteManifest(impl, manifest, target) ==
    IF impl = "server" THEN ServerRewrite(manifest, target)
                       ELSE VercelRewrite(manifest, target)

(***************************************************************************)
(* Inputs of the rewrite: target URLs and manifest lines                   *)
(***************************************************************************)
MaxLines == 2

TargetMaster == <<"https", ":", "/", "/", "origin", ".", "example", "/", "live", "/",
                  "master", ".", "m3u8">>
TargetVariant == <<"https", ":", "/", "/", "origin", ".", "example", "/", "live", "/",
                   "720p", "/", "index", ".", "m3u8">>
Targets == {TargetMaster, TargetVariant}

LineExtM3U    == <<"#", "EXTM3U">>
LineExtInf    == <<"#", "EXTINF", ":", "10", ",">>
LineKey       == <<"#", "EXT-X-KEY", ":", "METHOD", "=", "AES-128", ",",
                   "URI", "=", "\"", "key", ".", "bin", "\"">>
LineKeyAbs    == <<"#", "EXT-X-KEY", ":", "METHOD", "=", "AES-128", ",",
                   "URI", "=", "\"", "https", ":", "/", "/", "keys", ".", "example",
                   "/", "key", ".", "bin", "\"">>
LinePlain     == <<"segment1", ".", "ts">>
LineParent    == <<".", ".", "/", "audio", "/", "seg2", ".", "ts">>
LineRoot      == <<"/", "vod", "/", "seg3", ".", "ts">>
LineAbsolute  == <<"https", ":", "/", "/", "cdn", ".", "example", "/", "seg", ".", "ts">>
LineVariant   == <<"720p", "/", "index", ".", "m3u8">>
LineNoExt     == <<"segment4">>
LineQuery     == <<"seg5", ".", "ts", "?", "token", "=", "abc">>
LineEmpty     == <<>>

Lines == {LineExtM3U, LineExtInf, LineKey, LineKeyAbs, LinePlain, LineParent, LineRoot,
          LineAbsolute, LineVariant, LineNoExt, LineQuery, LineEmpty}

Manifests == UNION {[1..n -> Lines] : n \in 1..MaxLines}

RewriteInit ==
    /\ rpc = "fetched"
    /\ rimpl \in RewritingImpls
    /\ rtarget \in Targets
    /\ rmanifest \in Manifests
    /\ rout = <<>>

\* the manifest branch of the handler rewrites the text it read
RewriteStep ==
    /\ rpc = "fetched"
    /\ rpc' = "rewritten"
    /\ rout' = RewriteManifest(rimpl, rmanifest, rtarget)
    /\ UNCHANGED <<rimpl, rtarget, rmanifest>>
    /\ UNCHANGED notRewrite

RewriteNext == RewriteStep

\* the rewrite is not running
RewriteIdle ==
    /\ rpc = "idle"
    /\ rimpl = "server"
    /\ rtarget = <<>>
    /\ rmanifest = <<>>
    /\ rout = <<>>

(***************************************************************************)
(* The /stream-proxy gateway: four handlers of the repository              *)
(*   "server" src/server.js            "vercel" src/api/stream-proxy.ts    *)
(*   "part2"  src/unnamed/part_002     "part3"  src/unnamed/part_003       *)
(***************************************************************************)
MaxRequests == 1

Impls == {"server", "vercel", "part2", "part3"}

ACAO == "access-control-allow-origin"
ACAM == "access-control-allow-methods"
ACAH == "access-control-allow-headers"
ACEH == "access-control-expose-headers"
ACAC == "access-control-allow-credentials"
CT   == "content-type"

HeaderNames == {CT, ACAO, ACAM, ACAH, ACEH, ACAC}

\* name.startsWith('access-control-')
IsAccessControl(n) == n \in {ACAO, ACAM, ACAH, ACEH, ACAC}

\* a header that is not set has the empty value
NoHeaders == [n \in HeaderNames |-> <<>>]

MpegUrl  == "application/vnd.apple.mpegurl"
XMpegUrl == "application/x-mpegurl"
Mp2t     == "video/mp2t"

\* content types an origin declares
UpstreamContentTypes ==
    { <<>>, <<MpegUrl>>, <<MpegUrl, ";", "charset=utf-8">>, <<XMpegUrl>>, <<Mp2t>> }

UpstreamHeaders(ct, cors) ==
    [n \in HeaderNames |->
        IF n = CT THEN ct
        ELSE IF cors /\ n = ACAO THEN <<"https://origin.example">>
        ELSE IF cors /\ n = ACAC THEN <<"true">>
        ELSE <<>>]

MediaPlaylist == <<LineExtM3U, LineExtInf, LinePlain>>
MediaBytes    == << <<"bytes1">>, <<"bytes2">> >>

Upstreams ==
    [ status  : {200, 404, 503},
      headers : {UpstreamHeaders(ct, cors) : ct \in UpstreamContentTypes,
                                             cors \in BOOLEAN},
      body    : {MediaPlaylist, MediaBytes} ]

NoUpstream == [status |-> 0, headers |-> NoHeaders, body |-> <<>>]

StatusText(s) ==
    CASE s = 404 -> "Not Found"
      [] s = 503 -> "Service Unavailable"
      [] OTHER   -> "OK"

TargetSegment == <<"https", ":", "/", "/", "origin", ".", "example", "/", "live", "/",
                   "segment1", ".", "ts">>

\* the url query parameter as the framework hands it over (already decoded
\* once): absent, empty, or a target URL
Requests ==
    { [hasUrl |-> FALSE, url |-> <<>>] }
      \cup { [hasUrl |-> TRUE, url |-> u] : u \in {<<>>, TargetMaster, TargetSegment} }

\* ---- the client response object (http.ServerResponse with send helpers) ----
FreshResponse ==
    [ statusCode  |-> 200,        \* res.statusCode
      headers     |-> NoHeaders,  \* headers set so far
      headersSent |-> FALSE,
      sentStatus  |-> 0,          \* status line on the wire (0: none yet)
      body        |-> <<>>,       \* pieces written to the client
      ended       |-> FALSE,      \* the response was completed
      late        |-> FALSE ]     \* a send was attempted after headers were sent

SetHeader(r, n, v) == [r EXCEPT !.headers[n] = v]

SetStatus(r, c) == [r EXCEPT !.statusCode = c]

\* res.send(body): once headers are on the wire setHeader throws
\* (ERR_HTTP_HEADERS_SENT) and the response is left as it is
Send(r, pieces) ==
    IF r.headersSent
    THEN [r EXCEPT !.late = TRUE]
    ELSE [r EXCEPT !.headersSent = TRUE, !.sentStatus = r.statusCode,
                   !.body = pieces, !.ended = TRUE]

\* res.write(chunk): the first write flushes status line and headers
Write(r, chunk) ==
    [r EXCEPT !.headersSent = TRUE,
              !.sentStatus = IF r.headersSent THEN r.sentStatus ELSE r.statusCode,
              !.body = Append(r.body, chunk)]

\* res.end()
End(r) ==
    [r EXCEPT !.headersSent = TRUE,
              !.sentStatus = IF r.headersSent THEN r.sentStatus ELSE r.statusCode,
              !.ended = TRUE]

\* copy of upstream headers: forEach visits the headers that are present
CopyHeaders(r, up, skipAccessControl) ==
    [r EXCEPT !.headers =
        [n \in HeaderNames |->
            IF up[n] # <<>> /\ ~(skipAccessControl /\ IsAccessControl(n))
            THEN up[n] ELSE r.headers[n]]]

\* messages of rejections raised by the platform
FetchErrorText == <<"fetch failed">>
BodyErrorText  == <<"terminated">>
ReferenceErrorText == <<"contentType is not defined">>

MutCatchStatus(impl) == IF impl = "server" THEN 200 ELSE 500

\* status set by the catch block of a handler
CatchStatus(impl) == 500

\* body sent by the catch block of a handler
CatchBody(impl, msg) ==
    IF impl = "server" THEN <<msg>> ELSE << <<"Proxy error: ">> \o msg >>

\* catch (error) { res.status(500).send(...) }
Catch(impl, r, msg) == Send(SetStatus(r, CatchStatus(impl)), CatchBody(impl, msg))

\* the 400 answer for a request without url
MissingUrlBody(impl) ==
    IF impl = "server" THEN << <<"URL is required">> >>
    ELSE IF impl = "vercel" THEN << <<"Missing or invalid \"url\" query parameter.">> >>
    ELSE << <<"Missing url parameter">> >>

\* the local targetUrl of a handler
\*   server: decodeURIComponent(String(req.query.url)); String(undefined) is "undefined"
\*   vercel: decodeURIComponent(url)      part2, part3: req.query.url
TargetUrl(impl, req) ==
    IF impl = "server"
    THEN IF req.hasUrl THEN decodeURIComponent(req.url) ELSE <<"undefined">>
    ELSE IF impl = "vercel" THEN decodeURIComponent(req.url)
    ELSE req.url

\* the handler's test for a request without url
\*   server: !targetUrl     vercel: !url || typeof url !== 'string'    part2/3: !targetUrl
UrlMissing(impl, req) ==
    IF impl = "server" THEN TargetUrl(impl, req) = <<>>
    ELSE ~req.hasUrl \/ req.url = <<>>

\* the response object the handler starts with; app.use(cors()) of server.js has
\* already set Access-Control-Allow-Origin: * on it
InitialResponse(impl) ==
    IF impl = "server" THEN SetHeader(FreshResponse, ACAO, <<"*">>) ELSE FreshResponse

\* the handler's test for an HLS manifest
IsManifest(impl, target, ct) ==
    IF impl = "server"
    THEN ct # <<>> /\ (Contains(ct, <<MpegUrl>>) \/ EndsWith(target, <<".", "m3u8">>))
    ELSE Contains(ct, <<MpegUrl>>) \/ Contains(ct, <<XMpegUrl>>)

\* the CORS headers a handler sets after a good upstream answer
SetCors(impl, r) ==
    IF impl = "vercel"
    THEN SetHeader(SetHeader(SetHeader(SetHeader(r,
            ACAO, <<"*">>),
            ACAM, <<"GET, HEAD, OPTIONS">>),
            ACAH, <<"Content-Type, X-Requested-With, Range, X-Forwarded-For">>),
            ACEH, <<"Content-Length, Content-Range">>)
    ELSE IF impl \in {"part2", "part3"}
    THEN SetHeader(SetHeader(SetHeader(r,
            ACAO, <<"*">>),
            ACAM, <<"GET, OPTIONS">>),
            ACAH, <<"*">>)
    ELSE r

\* part_002 / part_003: `if (!res.getHeader('content-type'))` infer it from the suffix
InferContentType(r, target, up) ==
    IF r.headers[CT] # <<>> THEN r
    ELSE IF EndsWith(target, <<".", "m3u8">>) THEN SetHeader(r, CT, <<MpegUrl>>)
    ELSE IF EndsWith(target, <<".", "ts">>) THEN SetHeader(r, CT, <<Mp2t>>)
    ELSE r

\* ---- per-channel headers handed to the gateway as query parameters ----
\* VideoPlayer.tsx appends new URLSearchParams(channel.headers) to the gateway
\* URL; query keys are case-sensitive
QueryNames == {"User-Agent", "user-agent", "X-Forwarded-For", "x-forwarded-for"}

ChannelUserAgent == <<"KiwiChannelAgent">>
ChannelForwardedFor == <<"203", ".", "0", ".", "113", ".", "7">>

NoForward == [k \in QueryNames |-> <<>>]

ForwardTitle ==
    [k \in QueryNames |->
        IF k = "User-Agent" THEN ChannelUserAgent
        ELSE IF k = "X-Forwarded-For" THEN ChannelForwardedFor ELSE <<>>]

ForwardLower ==
    [k \in QueryNames |->
        IF k = "user-agent" THEN ChannelUserAgent
        ELSE IF k = "x-forwarded-for" THEN ChannelForwardedFor ELSE <<>>]

Forwards == {NoForward, ForwardTitle, ForwardLower}

\* the User-Agent header of the client's own request to the gateway
ClientUserAgent == <<"Mozilla/5.0 (player)">>

\* the User-Agent server.js sends upstream
ServerUserAgent ==
    <<"Mozilla/5.0 (Windows NT 10.0; Win64; x64) AppleWebKit/537.36 (KHTML, like Gecko) Chrome/107.0.0.0 Safari/537.36">>

\* request header names of the upstream fetch
FetchHeaderNames == {"user-agent", "x-forwarded-for"}

NoFetchHeaders == [h \in FetchHeaderNames |-> <<>>]

\* the headers a handler gives its fetch call
\*   server: the fixed User-Agent
\*   vercel: X-Forwarded-For from the query parameter x-forwarded-for
\*   part2:  User-Agent: req.headers['user-agent'] || ''
\*   part3:  User-Agent: req.query['User-Agent'] || req.headers['user-agent']
FetchHeaders(impl, fwd) ==
    [h \in FetchHeaderNames |->
        IF impl = "server"
        THEN IF h = "user-agent" THEN ServerUserAgent ELSE <<>>
        ELSE IF impl = "vercel"
        THEN IF h = "x-forwarded-for" THEN fwd["x-forwarded-for"] ELSE <<>>
        ELSE IF impl = "part2"
        THEN IF h = "user-agent" THEN ClientUserAgent ELSE <<>>
        ELSE IF h = "user-agent"
             THEN IF fwd["User-Agent"] # <<>> THEN fwd["User-Agent"] ELSE ClientUserAgent
             ELSE <<>>]

GatewayInit ==
    /\ gpc = "idle"
    /\ gimpl = "server"
    /\ greq = [hasUrl |-> FALSE, url |-> <<>>]
    /\ gtarget = <<>>
    /\ gfetched = <<>>
    /\ gup = NoUpstream
    /\ gfate = "none"
    /\ gnread = 0
    /\ gres = FreshResponse
    /\ gserved = 0
    /\ gconn = "none"
    /\ gclient = "connected"
    /\ gfwd = NoForward
    /\ gsent = NoFetchHeaders

GatewayIdle == GatewayInit

\* a request arrives at a handler: the url check and, if it passes, the fetch call
GReceive ==
    /\ gpc = "idle"
    /\ gserved < MaxRequests
    /\ \E impl \in Impls, req \in Requests, fwd \in Forwards :
        /\ gimpl' = impl
        /\ greq' = req
        /\ gfwd' = fwd
        /\ gsent' = IF UrlMissing(impl, req) THEN NoFetchHeaders
                                             ELSE FetchHeaders(impl, fwd)
        /\ gup' = NoUpstream
        /\ gfate' = "none"
        /\ gnread' = 0
        /\ gconn' = "none"
        /\ gclient' = "connected"
        /\ IF UrlMissing(impl, req)
           THEN /\ gres' = Send(SetStatus(InitialResponse(impl), 400), MissingUrlBody(impl))
                /\ gtarget' = <<>>
                /\ gfetched' = <<>>
                /\ gpc' = "done"
           ELSE /\ gres' = InitialResponse(impl)
                /\ gtarget' = TargetUrl(impl, req)
                /\ gfetched' = <<TargetUrl(impl, req)>>
                /\ gpc' = "fetch"
    /\ UNCHANGED gserved
    /\ UNCHANGED notGateway

\* the awaited fetch rejects (network failure, timeout of the platform, or a
\* target that is no absolute URL): the catch block answers
GFetchReject ==
    /\ gpc = "fetch"
    /\ gfate' = "rejected"
    /\ gres' = Catch(gimpl, gres, FetchErrorText)
    /\ gpc' = "done"
    /\ UNCHANGED <<gimpl, greq, gtarget, gfetched, gup, gnread, gserved, gconn, gclient, gfwd, gsent>>
    /\ UNCHANGED notGateway

\* what the handler does up to its next await once the fetch has resolved
OnUpstream(impl, r, target, up) ==
    IF ~IsOk(up.status)
    THEN IF impl \in {"server", "vercel"}
         THEN [res |-> Send(SetStatus(r, up.status), << <<StatusText(up.status)>> >>),
               pc  |-> "done"]
         ELSE [res |-> Catch(impl, r, <<"Upstream server responded with ",
                                         ToString(up.status)>>),
               pc  |-> "done"]
    ELSE IF impl = "server"
    THEN [res |-> r,
          pc  |-> IF IsManifest(impl, target, up.headers[CT]) THEN "read" ELSE "stream"]
    ELSE IF impl = "vercel"
    THEN IF IsManifest(impl, target, up.headers[CT])
         THEN [res |-> SetCors(impl, r), pc |-> "read"]
         ELSE [res |-> CopyHeaders(SetCors(impl, r), up.headers, TRUE), pc |-> "stream"]
    ELSE [res |-> SetCors(impl, InferContentType(CopyHeaders(r, up.headers, FALSE),
                                                 target, up)),
          pc  |-> "read"]

\* the awaited fetch resolves with an upstream response
GFetchResolve ==
    /\ gpc = "fetch"
    /\ IsAbsoluteUrl(gtarget)
    /\ \E up \in Upstreams :
        /\ gup' = up
        /\ gres' = OnUpstream(gimpl, gres, gtarget, up).res
        /\ gpc' = OnUpstream(gimpl, gres, gtarget, up).pc
    /\ gfate' = "answered"
    /\ gconn' = "open"
    /\ UNCHANGED <<gimpl, greq, gtarget, gfetched, gnread, gserved, gclient, gfwd, gsent>>
    /\ UNCHANGED notGateway

\* what the handler does once text() / arrayBuffer() has given the whole body
\*   part2 reads `contentType`, declared in an inner block: a ReferenceError
OnBody(impl, r, target, up) ==
    IF impl = "server"
    THEN Send(SetHeader(r, CT, <<MpegUrl>>), ServerRewrite(up.body, target))
    ELSE IF impl = "vercel"
    THEN Send(CopyHeaders(r, up.headers, TRUE), VercelRewrite(up.body, target))
    ELSE IF impl = "part2"
    THEN Catch(impl, r, ReferenceErrorText)
    ELSE Send(r, up.body)

\* the awaited text() / arrayBuffer() resolves
GReadDone ==
    /\ gpc = "read"
    /\ gres' = OnBody(gimpl, gres, gtarget, gup)
    /\ gnread' = Len(gup.body)
    /\ gconn' = "drained"
    /\ gpc' = "done"
    /\ UNCHANGED <<gimpl, greq, gtarget, gfetched, gup, gfate, gserved, gclient, gfwd, gsent>>
    /\ UNCHANGED notGateway

\* the awaited text() / arrayBuffer() rejects: the catch block answers
GReadFail ==
    /\ gpc = "read"
    /\ gfate' = "readfail"
    /\ gres' = Catch(gimpl, gres, BodyErrorText)
    /\ gconn' = "closed"
    /\ gpc' = "done"
    /\ UNCHANGED <<gimpl, greq, gtarget, gfetched, gup, gnread, gserved, gclient, gfwd, gsent>>
    /\ UNCHANGED notGateway

\* one chunk of an opaque body goes to the client
\*   vercel: reader.read() then response.write(value)   server: response.body.pipe(res)
GStreamChunk ==
    /\ gpc = "stream"
    /\ gnread < Len(gup.body)
    /\ gnread' = gnread + 1
    /\ gres' = IF gclient = "gone" THEN gres ELSE Write(gres, gup.body[gnread + 1])
    /\ UNCHANGED <<gpc, gimpl, greq, gtarget, gfetched, gup, gfate, gserved,
                   gconn, gclient, gfwd, gsent>>
    /\ UNCHANGED notGateway

\* the upstream body ends: response.end() / pipe ends res
GStreamEnd ==
    /\ gpc = "stream"
    /\ gnread = Len(gup.body)
    /\ gres' = IF gclient = "gone" THEN gres ELSE End(gres)
    /\ gconn' = "drained"
    /\ gpc' = "done"
    /\ UNCHANGED <<gimpl, greq, gtarget, gfetched, gup, gfate, gnread, gserved, gclient, gfwd, gsent>>
    /\ UNCHANGED notGateway

\* what happens when the upstream body errors while it is streamed
\*   vercel: reader.read() rejects inside the try: the catch block answers
\*   server: pipe() forwards no error and nothing listens: res is left as it is
OnStreamError(impl, r) ==
    IF impl = "vercel" THEN Catch(impl, r, BodyErrorText) ELSE r

\* the upstream body errors before it is complete
GStreamFail ==
    /\ gpc = "stream"
    /\ gnread < Len(gup.body)
    /\ gfate' = "streamfail"
    /\ gres' = OnStreamError(gimpl, gres)
    /\ gconn' = "closed"
    /\ gpc' = "done"
    /\ UNCHANGED <<gimpl, greq, gtarget, gfetched, gup, gnread, gserved, gclient, gfwd, gsent>>
    /\ UNCHANGED notGateway

\* where the handler stands once the client has gone away while a body is
\* streamed; no handler listens for the client's close event
\*   vercel: the read loop goes on, response.write() to the closed response is
\*           dropped
\*   server: pipe() unpipes the closed response and leaves the upstream body
\*           paused; the handler returned when it called pipe()
OnClientGone(impl) == IF impl = "vercel" THEN "stream" ELSE "done"

\* the client disconnects while the body is streamed to it
GClientGone ==
    /\ gpc = "stream"
    /\ gclient = "connected"
    /\ gclient' = "gone"
    /\ gpc' = OnClientGone(gimpl)
    /\ UNCHANGED <<gimpl, greq, gtarget, gfetched, gup, gfate, gnread, gres, gserved,
                   gconn, gfwd, gsent>>
    /\ UNCHANGED notGateway

\* the request is over; the gateway keeps nothing of it (the handler's locals
\* and the response object are gone)
GFinish ==
    /\ gpc = "done"
    /\ gpc' = "idle"
    /\ gserved' = gserved + 1
    /\ gimpl' = "server"
    /\ greq' = [hasUrl |-> FALSE, url |-> <<>>]
    /\ gtarget' = <<>>
    /\ gfetched' = <<>>
    /\ gup' = NoUpstream
    /\ gfate' = "none"
    /\ gnread' = 0
    /\ gres' = FreshResponse
    /\ gconn' = "none"
    /\ gclient' = "connected"
    /\ gfwd' = NoForward
    /\ gsent' = NoFetchHeaders
    /\ UNCHANGED notGateway

GatewayNext ==
    \/ GReceive
    \/ GFetchReject
    \/ GFetchResolve
    \/ GReadDone
    \/ GReadFail
    \/ GStreamChunk
    \/ GStreamEnd
    \/ GStreamFail
    \/ GClientGone
    \/ GFinish

(***************************************************************************)
(* A player following a playlist tree through the gateway                  *)
(* the origin serves a tree of playlists of depth cdepth, every playlist   *)
(* referring to the next level by the relative reference 720p/index.m3u8   *)
(* and the last one to the segment segment1.ts                             *)
(***************************************************************************)
MaxDepth == 3

LineStreamInf == <<"#", "EXT-X-STREAM-INF", ":", "BANDWIDTH", "=", "2000000">>

MasterPlaylist == <<LineExtM3U, LineStreamInf, LineVariant>>

\* the URL of the playlist of level k
\* the directory of a URL: the URL up to its last "/"
DirOf(u) == SubSeq(u, 1, LastIndexOf(u, "/"))

\* level k is reached from the master by k - 1 references 720p/index.m3u8
ChainUrl(k) ==
    IF k = 1 THEN TargetMaster
    ELSE DirOf(TargetMaster) \o Flatten([i \in 1..(k - 1) |-> <<"720p", "/">>])
                            \o <<"index", ".", "m3u8">>

SegmentUrl(depth) == DirOf(ChainUrl(depth)) \o LinePlain

\* content types the origin gives a playlist
PlaylistContentTypes == { <<MpegUrl>>, <<XMpegUrl>>, <<>> }

\* what the origin holds at url
OriginResource(depth, url) ==
    IF \E k \in 1..depth : url = ChainUrl(k)
    THEN LET k == CHOOSE k \in 1..depth : url = ChainUrl(k)
         IN  [status |-> 200, kind |-> "playlist",
              body |-> IF k < depth THEN MasterPlaylist ELSE MediaPlaylist]
    ELSE IF url = SegmentUrl(depth)
    THEN [status |-> 200, kind |-> "segment", body |-> MediaBytes]
    ELSE [status |-> 404, kind |-> "missing", body |-> <<>>]

\* the origin's answer to a fetch of url
OriginAnswer(depth, url, ct) ==
    LET o == OriginResource(depth, url)
    IN  [status  |-> o.status,
         headers |-> UpstreamHeaders(IF o.kind = "playlist" THEN ct
                                     ELSE IF o.kind = "segment" THEN <<Mp2t>>
                                     ELSE <<>>, FALSE),
         body    |-> o.body]

\* origin of the page the player runs in
AppOrigin == <<"https", ":", "/", "/", "kiwi", ".", "example">>

\* the URL under which the player reaches the handler, up to "url="
GatewayPrefix(impl) ==
    IF impl = "server" THEN ServerGatewayPrefix
    ELSE AppOrigin \o <<"/", "api", "/", "stream-proxy", "?", "url", "=">>

\* VideoPlayer.tsx: `/api/stream-proxy?url=${encodeURIComponent(streamUrl)}&${...}`
\* for a channel without headers
FinalStreamUrl(impl, streamUrl) ==
    GatewayPrefix(impl) \o encodeURIComponent(streamUrl)
        \o (IF impl = "server" THEN <<>> ELSE <<"&">>)

IsGatewayUrl(impl, u) == StartsWith(u, GatewayPrefix(impl))

\* req.query of a request to the handler: the framework splits the query at
\* "&" and percent-decodes the value of url
QueryOfRequest(impl, u) ==
    LET rest == SubSeq(u, Len(GatewayPrefix(impl)) + 1, Len(u))
        amp  == IndexFrom(rest, "&", 1)
        raw  == IF amp = 0 THEN rest ELSE SubSeq(rest, 1, amp - 1)
    IN  [hasUrl |-> TRUE, url |-> decodeURIComponent(raw)]

\* the handler's whole answer to a request whose fetch and body reads succeed
GatewayAnswer(impl, req, depth, ct) ==
    LET target == TargetUrl(impl, req)
        up     == OriginAnswer(depth, target, ct)
        step   == OnUpstream(impl, InitialResponse(impl), target, up)
    IN  IF step.pc = "read"
        THEN LET r == OnBody(impl, step.res, target, up)
             IN  [target |-> target, status |-> r.sentStatus, body |-> r.body,
                  manifest |-> IsManifest(impl, target, ct)]
        ELSE IF step.pc = "stream"
        THEN [target |-> target, status |-> step.res.statusCode, body |-> up.body,
              manifest |-> FALSE]
        ELSE [target |-> target, status |-> step.res.sentStatus, body |-> <<>>,
              manifest |-> FALSE]

\* the reference a playlist body names (its last line)
ReferenceOf(body) == body[Len(body)]

\* the URL the player requests for a reference of a playlist loaded from `from`
PlayerUrl(ref, from) == ResolveUrl(ref, from)

Hop(gw, target, kind, ct, manifest, status, body) ==
    [gateway |-> gw, target |-> target, kind |-> kind, ct |-> ct,
     manifest |-> manifest, status |-> status, body |-> body]

ChainInit ==
    /\ cpc = "request"
    /\ cimpl \in RewritingImpls
    /\ cdepth \in 1..MaxDepth
    /\ curl = FinalStreamUrl(cimpl, TargetMaster)
    /\ chops = <<>>

ChainIdle ==
    /\ cpc = "idle"
    /\ cimpl = "server"
    /\ cdepth = 1
    /\ curl = <<>>
    /\ chops = <<>>

\* the player's request reaches the gateway handler
ChainGatewayServe ==
    /\ cpc = "request"
    /\ IsGatewayUrl(cimpl, curl)
    /\ \E ct \in PlaylistContentTypes :
         LET a == GatewayAnswer(cimpl, QueryOfRequest(cimpl, curl), cdepth, ct)
             o == OriginResource(cdepth, a.target)
         IN  chops' = Append(chops, Hop(TRUE, a.target, o.kind,
                                        IF o.kind = "playlist" THEN ct ELSE <<>>,
                                        a.manifest, a.status, a.body))
    /\ cpc' = "loaded"
    /\ UNCHANGED <<cimpl, cdepth, curl>>
    /\ UNCHANGED notChain

\* the player's request goes to another server than the gateway handler
ChainDirectServe ==
    /\ cpc = "request"
    /\ ~IsGatewayUrl(cimpl, curl)
    /\ \E ct \in PlaylistContentTypes :
         LET o == OriginResource(cdepth, curl)
         IN  chops' = Append(chops, Hop(FALSE, curl, o.kind,
                                        IF o.kind = "playlist" THEN ct ELSE <<>>,
                                        FALSE, o.status, o.body))
    /\ cpc' = "loaded"
    /\ UNCHANGED <<cimpl, cdepth, curl>>
    /\ UNCHANGED notChain

\* the player parses the playlist it loaded and requests what it refers to
ChainFollow ==
    /\ cpc = "loaded"
    /\ Last(chops).status = 200
    /\ Last(chops).kind = "playlist"
    /\ curl' = PlayerUrl(ReferenceOf(Last(chops).body), curl)
    /\ cpc' = "request"
    /\ UNCHANGED <<cimpl, cdepth, chops>>
    /\ UNCHANGED notChain

\* the player has a media segment
ChainEnd ==
    /\ cpc = "loaded"
    /\ Last(chops).status = 200
    /\ Last(chops).kind = "segment"
    /\ cpc' = "done"
    /\ UNCHANGED <<cimpl, cdepth, curl, chops>>
    /\ UNCHANGED notChain

\* the request was answered with an error status
ChainFail ==
    /\ cpc = "loaded"
    /\ Last(chops).status # 200
    /\ cpc' = "failed"
    /\ UNCHANGED <<cimpl, cdepth, curl, chops>>
    /\ UNCHANGED notChain

ChainNext ==
    \/ ChainGatewayServe
    \/ ChainDirectServe
    \/ ChainFollow
    \/ ChainEnd
    \/ ChainFail

(***************************************************************************)
(* resilientFetch                                                          *)
(***************************************************************************)
PROXY_URLS == << "https://corsproxy.io/?",
                 "https://cors.eu.org/",
                 "https://thingproxy.freeboard.io/fetch/" >>

NumProxies == Len(PROXY_URLS)
Direct     == NumProxies + 1
Candidates == 1..Direct

\* the target of the call (CHANNELS_URL)
Url == "https://i.mjh.nz/nz/tv.json"

\* `${proxy}${url}` for a proxy, url itself for the direct attempt
CandidateUrl(c) == IF c <= NumProxies THEN <<PROXY_URLS[c], Url>> ELSE <<Url>>

\* HTTP statuses a candidate may answer with
Statuses == {200, 204, 404, 503}

\* messages of the platform's fetch rejections: they do not name the URL
TransportText == <<"Failed to fetch">>
AbortText     == <<"The user aborted a request.">>

Null == <<>>

\* entry of the outcomes log: how an attempt ended and, if answered, the status
Outcome(how, s) == [how |-> how, status |-> s]

NoResult       == [kind |-> "none", from |-> 0, status |-> 0, msg |-> Null]
Response(c, s) == [kind |-> "response", from |-> c, status |-> s, msg |-> Null]
Raised(m)      == [kind |-> "error", from |-> 0, status |-> 0, msg |-> m]

\* the Error thrown for a non-2xx answer
StatusMessage(c, s) ==
    IF c <= NumProxies
    THEN <<"Request failed with status ", ToString(s), " for ">> \o CandidateUrl(c)
    ELSE <<"Direct request failed with status ", ToString(s)>>

\* the aggregated message built in the direct attempt's catch
Aggregate(last, direct) ==
    <<"All proxies failed. Last error: ">> \o last
        \o <<". Direct connection also failed with message: \"">> \o direct \o <<"\"">>

MutFirstCandidate == IF prevGood # 0 THEN prevGood ELSE 1

\* the for-loop starts at PROXY_URLS[0] on every call
FirstCandidate == 1

FetchInit ==
    /\ prevGood = 0
    /\ fpc = "idle"
    /\ cand = FirstCandidate
    /\ lastError = Null
    /\ result = NoResult
    /\ inflight = {}
    /\ timers = {}
    /\ aborted = FALSE
    /\ requests = <<>>
    /\ outcomes = <<>>
    /\ texts = <<>>
    /\ calls = 0

\* resilientFetch is called: `let lastError = null`, loop at its first candidate
StartCall ==
    /\ fpc = "idle"
    /\ calls < MaxCalls
    /\ fpc' = "issue"
    /\ cand' = FirstCandidate
    /\ lastError' = Null
    /\ result' = NoResult
    /\ requests' = <<>>
    /\ outcomes' = <<>>
    /\ texts' = <<>>
    /\ UNCHANGED <<inflight, timers, aborted, calls, prevGood>>
    /\ UNCHANGED notFetch

MutIssueRacing ==
    /\ fpc = "issue"
    /\ fpc' = "await"
    /\ aborted' = FALSE
    /\ timers' = timers \cup {cand}
    /\ inflight' = inflight \cup {c \in Candidates : c >= cand}
    /\ requests' = Append(requests, cand)
    /\ UNCHANGED <<cand, lastError, result, outcomes, texts, calls, prevGood>>
    /\ UNCHANGED notFetch

MutIssueSharedSignal ==
    /\ fpc = "issue"
    /\ fpc' = "await"
    /\ timers' = timers \cup {cand}
    /\ inflight' = inflight \cup {cand}
    /\ requests' = Append(requests, cand)
    /\ UNCHANGED <<aborted, cand, lastError, result, outcomes, texts, calls, prevGood>>
    /\ UNCHANGED notFetch

\* fetchWithTimeout up to its await: new controller, timer armed, request issued
IssueRequest ==
    /\ fpc = "issue"
    /\ fpc' = "await"
    /\ aborted' = FALSE
    /\ timers' = timers \cup {cand}
    /\ inflight' = inflight \cup {cand}
    /\ requests' = Append(requests, cand)
    /\ UNCHANGED <<cand, lastError, result, outcomes, texts, calls, prevGood>>
    /\ UNCHANGED notFetch

MutSuccess(resp) ==
    /\ result' = resp
    /\ IF cand < Direct
       THEN fpc' = "issue" /\ cand' = cand + 1
       ELSE fpc' = "returned" /\ cand' = cand
    /\ UNCHANGED lastError

\* `return response`
Success(resp) ==
    /\ fpc' = "returned"
    /\ result' = resp
    /\ UNCHANGED <<cand, lastError>>

MutProxyCatch(msg) ==
    /\ lastError' = IF lastError = Null THEN msg ELSE lastError \o <<"; ">> \o msg
    /\ cand' = cand + 1
    /\ fpc' = "issue"
    /\ UNCHANGED result

MutProxyCatchRetry(msg) ==
    /\ lastError' = msg
    /\ cand' = cand
    /\ fpc' = "issue"
    /\ UNCHANGED result

\* catch of the proxy loop: remember the error, go on with the next candidate
ProxyCatch(msg) ==
    /\ lastError' = msg
    /\ cand' = cand + 1
    /\ fpc' = "issue"
    /\ UNCHANGED result

\* catch of the direct attempt and the final throw
DirectCatch(msg) ==
    LET err == IF lastError # Null THEN Aggregate(lastError, msg) ELSE msg
    IN  /\ lastError' = err
        /\ fpc' = "raised"
        /\ result' = Raised(err)
        /\ UNCHANGED cand

AttemptFailed(msg) ==
    IF cand <= NumProxies THEN ProxyCatch(msg) ELSE DirectCatch(msg)

MutOnResponse(s) == Success(Response(cand, s))

\* what resilientFetch does with the response fetchWithTimeout returned
OnResponse(s) ==
    IF IsOk(s) THEN Success(Response(cand, s))
               ELSE AttemptFailed(StatusMessage(cand, s))

\* the awaited fetch resolves with status s before the timer fires
Respond ==
    /\ fpc = "await"
    /\ ~aborted
    /\ cand \in inflight
    /\ \E s \in Statuses :
        /\ outcomes' = Append(outcomes, Outcome(IF s >= 200 /\ s <= 299 THEN "ok" ELSE "status", s))
        /\ texts' = Append(texts, IF s >= 200 /\ s <= 299 THEN Null
                                                       ELSE StatusMessage(cand, s))
        /\ OnResponse(s)
    /\ timers' = timers \ {cand}
    /\ inflight' = inflight \ {cand}
    /\ UNCHANGED <<aborted, requests, calls, prevGood>>
    /\ UNCHANGED notFetch

\* the awaited fetch rejects at transport level before the timer fires
TransportFail ==
    /\ fpc = "await"
    /\ ~aborted
    /\ cand \in inflight
    /\ outcomes' = Append(outcomes, Outcome("transport", 0))
    /\ texts' = Append(texts, TransportText)
    /\ AttemptFailed(TransportText)
    /\ timers' = timers \ {cand}
    /\ inflight' = inflight \ {cand}
    /\ UNCHANGED <<aborted, requests, calls, prevGood>>
    /\ UNCHANGED notFetch

\* the deadline timer fires first: controller.abort() cancels the request
TimerFires ==
    /\ fpc = "await"
    /\ cand \in timers
    /\ timers' = timers \ {cand}
    /\ aborted' = TRUE
    /\ inflight' = inflight \ {cand}
    /\ UNCHANGED <<fpc, cand, lastError, result, requests, outcomes, texts,
                   calls, prevGood>>
    /\ UNCHANGED notFetch

\* the aborted fetch rejects with an AbortError
AbortRejects ==
    /\ fpc = "await"
    /\ aborted
    /\ outcomes' = Append(outcomes, Outcome("timeout", 0))
    /\ texts' = Append(texts, AbortText)
    /\ AttemptFailed(AbortText)
    /\ UNCHANGED <<inflight, timers, aborted, requests, calls, prevGood>>
    /\ UNCHANGED notFetch

\* the caller has the response or the error; the next call may start
FinishCall ==
    /\ fpc \in {"returned", "raised"}
    /\ fpc' = "idle"
    /\ calls' = calls + 1
    /\ prevGood' = IF result.kind = "response" THEN result.from ELSE 0
    /\ UNCHANGED <<cand, lastError, result, inflight, timers, aborted,
                   requests, outcomes, texts>>
    /\ UNCHANGED notFetch

FetchNext ==
    \/ StartCall
    \/ IssueRequest
    \/ Respond
    \/ TransportFail
    \/ TimerFires
    \/ AbortRejects
    \/ FinishCall

FetchIdle == FetchInit

(***************************************************************************)
(* parseEpgDate                                                            *)
(* a timestamp is the sequence of its characters                           *)
(***************************************************************************)
DigitChars == <<"0", "1", "2", "3", "4", "5", "6", "7", "8", "9">>

IsDigit(c) == \E d \in 1..10 : DigitChars[d] = c

DigitOf(c) == (CHOOSE d \in 1..10 : DigitChars[d] = c) - 1

Num2(cs) == 10 * DigitOf(cs[1]) + DigitOf(cs[2])

Num4(cs) == 100 * Num2(SubSeq(cs, 1, 2)) + Num2(SubSeq(cs, 3, 4))

\* str.slice(a, b): characters a..b-1 counted from 0, cut at the end of str
Slice(s, a, b) == SubSeq(s, a + 1, IF b < Len(s) THEN b ELSE Len(s))

\* str.slice(a)
SliceFrom(s, a) == SubSeq(s, a + 1, Len(s))

\* values of type Date | null; a Date holds seconds since the epoch, or is an
\* Invalid Date (time value NaN)
NullDate     == [kind |-> "null", valid |-> FALSE, time |-> 0]
InvalidDate  == [kind |-> "date", valid |-> FALSE, time |-> 0]
ValidDate(t) == [kind |-> "date", valid |-> TRUE, time |-> t]

\* ---- Date.parse of the ISO format (ECMAScript time values) ----
IsLeapYear(y) == (y % 4 = 0 /\ y % 100 # 0) \/ y % 400 = 0

DaysInMonth(y, m) ==
    IF m \in {4, 6, 9, 11} THEN 30
    ELSE IF m = 2 THEN (IF IsLeapYear(y) THEN 29 ELSE 28)
    ELSE 31

DayFromYear(y) ==
    365 * (y - 1970) + ((y - 1969) \div 4) - ((y - 1901) \div 100)
        + ((y - 1601) \div 400)

DaysBeforeMonth(y, m) ==
    <<0, 31, 59, 90, 120, 151, 181, 212, 243, 273, 304, 334>>[m]
        + (IF m > 2 /\ IsLeapYear(y) THEN 1 ELSE 0)

MakeDay(y, m, d) == DayFromYear(y) + DaysBeforeMonth(y, m) + d - 1

MakeTime(h, mi, s) == h * 3600 + mi * 60 + s

IsoDigitsAt == {1, 2, 3, 4, 6, 7, 9, 10, 12, 13, 15, 16, 18, 19, 21, 22, 24, 25}

\* the string is YYYY-MM-DDTHH:mm:ss+HH:MM or ...-HH:MM
IsIsoShape(iso) ==
    /\ Len(iso) = 25
    /\ \A i \in IsoDigitsAt : IsDigit(iso[i])
    /\ iso[5] = "-" /\ iso[8] = "-" /\ iso[11] = "T"
    /\ iso[14] = ":" /\ iso[17] = ":" /\ iso[23] = ":"
    /\ iso[20] \in {"+", "-"}

\* new Date(isoDateStr): never throws; a string that is not a date-time of the
\* format gives an Invalid Date. (A day past the end of its month is left to
\* the engine; no input of the model has one.)
NewDate(iso) ==
    IF ~IsIsoShape(iso) THEN InvalidDate
    ELSE LET y  == Num4(SubSeq(iso, 1, 4))
             mo == Num2(SubSeq(iso, 6, 7))
             d  == Num2(SubSeq(iso, 9, 10))
             h  == Num2(SubSeq(iso, 12, 13))
             mi == Num2(SubSeq(iso, 15, 16))
             s  == Num2(SubSeq(iso, 18, 19))
             oh == Num2(SubSeq(iso, 21, 22))
             om == Num2(SubSeq(iso, 24, 25))
             sg == IF iso[20] = "-" THEN -1 ELSE 1
         IN  IF /\ mo \in 1..12
                /\ d \in 1..DaysInMonth(y, mo)
                /\ (h \in 0..23 \/ (h = 24 /\ mi = 0 /\ s = 0))
                /\ mi \in 0..59 /\ s \in 0..59
                /\ oh \in 0..23 /\ om \in 0..59
             THEN ValidDate(MakeDay(y, mo, d) * 86400 + MakeTime(h, mi, s)
                              - sg * (oh * 3600 + om * 60))
             ELSE InvalidDate

MutFormattedTimezone(timezone) ==
    <<"+">> \o Slice(timezone, 1, 3) \o <<":">> \o Slice(timezone, 3, 5)

\* `${timezone.slice(0, 3)}:${timezone.slice(3, 5)}`
FormattedTimezone(timezone) ==
    Slice(timezone, 0, 3) \o <<":">> \o Slice(timezone, 3, 5)

\* `${year}-${month}-${day}T${hour}:${minute}:${second}${formattedTimezone}`
IsoDateStr(dateStr) ==
    Slice(dateStr, 0, 4) \o <<"-">> \o Slice(dateStr, 4, 6) \o <<"-">>
        \o Slice(dateStr, 6, 8) \o <<"T">> \o Slice(dateStr, 8, 10) \o <<":">>
        \o Slice(dateStr, 10, 12) \o <<":">> \o Slice(dateStr, 12, 14)
        \o FormattedTimezone(SliceFrom(dateStr, 15))

parseEpgDate(dateStr) ==
    IF Len(dateStr) < 20 THEN NullDate ELSE NewDate(IsoDateStr(dateStr))

\* ---- timestamps of the feed ----
Pad2(n) == <<DigitChars[(n \div 10) + 1], DigitChars[(n % 10) + 1]>>

Pad4(n) == Pad2(n \div 100) \o Pad2(n % 100)

\* the feed's text for a local date-time with a UTC offset
Stamp(f) ==
    Pad4(f.y) \o Pad2(f.mo) \o Pad2(f.d) \o Pad2(f.h) \o Pad2(f.mi) \o Pad2(f.s)
        \o <<" ", f.sign>> \o Pad2(f.oh) \o Pad2(f.om)

StampOffsets ==
    { [sign |-> "+", oh |-> 12, om |-> 0], [sign |-> "+", oh |-> 13, om |-> 45],
      [sign |-> "-", oh |-> 9, om |-> 30], [sign |-> "+", oh |-> 0, om |-> 0] }

StampFields ==
    { [y |-> y, mo |-> mo, d |-> d, h |-> h, mi |-> mi, s |-> s,
       sign |-> o.sign, oh |-> o.oh, om |-> o.om] :
         y \in {2024, 2025}, mo \in {2, 7, 12}, d \in {1, 28}, h \in {0, 23},
         mi \in {0, 59}, s \in {0, 59}, o \in StampOffsets }

NoFields ==
    [y |-> 0, mo |-> 0, d |-> 0, h |-> 0, mi |-> 0, s |-> 0,
     sign |-> "+", oh |-> 0, om |-> 0]

\* 2024-07-28 hh:00:00 +1200
At(h) == [y |-> 2024, mo |-> 7, d |-> 28, h |-> h, mi |-> 0, s |-> 0,
          sign |-> "+", oh |-> 12, om |-> 0]

\* 19 characters: a timestamp that lost its last digit
ShortStamp == SubSeq(Stamp(At(0)), 1, 19)

\* 20 characters that are no date
JunkStamp == [i \in 1..20 |-> "x"]

BadStamps == {ShortStamp, JunkStamp, <<>>}

DateInit ==
    /\ dpc = "given"
    /\ dfields \in StampFields \cup {NoFields}
    /\ dstr \in (IF dfields = NoFields THEN BadStamps ELSE {Stamp(dfields)})
    /\ ddate = NullDate

DateIdle ==
    /\ dpc = "idle"
    /\ dfields = NoFields
    /\ dstr = <<>>
    /\ ddate = NullDate

\* parseEpgDate(dateStr) is called
DateParse ==
    /\ dpc = "given"
    /\ ddate' = parseEpgDate(dstr)
    /\ dpc' = "parsed"
    /\ UNCHANGED <<dfields, dstr>>
    /\ UNCHANGED notDate

DateNext == DateParse

(***************************************************************************)
(* fetchEpg                                                                *)
(***************************************************************************)
MaxNodes == 3

MaxEpgCalls == 2

\* an attribute (or the text of a child element): absent, or a string
NoAttr  == [has |-> FALSE, val |-> <<>>]
Attr(v) == [has |-> TRUE, val |-> v]

\* !x for a value of getAttribute: null or the empty string
Falsy(a) == ~a.has \/ a.val = <<>>

ChannelOne == <<"mjh-tvnz-1">>
ChannelTwo == <<"mjh-three">>
ChannelKeys == {ChannelOne, ChannelTwo}

Element(c, start, stop, title) ==
    [channel |-> c, start |-> start, stop |-> stop, title |-> title]

ElemNews      == Element(Attr(ChannelOne), Attr(Stamp(At(1))), Attr(Stamp(At(2))),
                         Attr(<<"News">>))
ElemEarly     == Element(Attr(ChannelOne), Attr(Stamp(At(0))), Attr(Stamp(At(1))),
                         Attr(<<"Breakfast">>))
ElemThree     == Element(Attr(ChannelTwo), Attr(Stamp(At(0))), Attr(Stamp(At(1))),
                         NoAttr)
ElemNoStop    == Element(Attr(ChannelOne), Attr(Stamp(At(0))), NoAttr,
                         Attr(<<"News">>))
ElemNoStart   == Element(Attr(ChannelTwo), NoAttr, Attr(Stamp(At(1))),
                         Attr(<<"News">>))
ElemNoChannel == Element(NoAttr, Attr(Stamp(At(0))), Attr(Stamp(At(1))),
                         Attr(<<"News">>))
ElemShort     == Element(Attr(ChannelOne), Attr(ShortStamp), Attr(Stamp(At(1))),
                         Attr(<<"News">>))
ElemJunk      == Element(Attr(ChannelTwo), Attr(Stamp(At(0))), Attr(JunkStamp),
                         Attr(<<"News">>))

\* a programme whose stop is an hour before its start
ElemReversed  == Element(Attr(ChannelOne), Attr(Stamp(At(2))), Attr(Stamp(At(1))),
                         Attr(<<"News">>))

Elements == {ElemNews, ElemEarly, ElemThree, ElemNoStop, ElemNoStart,
             ElemNoChannel, ElemShort, ElemJunk, ElemReversed}

\* the payload: text that is not well-formed XML, or a document with its
\* <programme> elements in document order
Documents ==
    { [wellFormed |-> FALSE, nodes |-> <<>>] }
      \cup { [wellFormed |-> TRUE, nodes |-> ns] :
                ns \in UNION {[1..n -> Elements] : n \in 0..MaxNodes} }

MutParserErrors(doc) == 0

\* xmlDoc.getElementsByTagName("parsererror").length
ParserErrors(doc) == IF doc.wellFormed THEN 0 ELSE 1

\* the index: a Map, its keys in insertion order
EmptyMap == [keys |-> <<>>, progs |-> [k \in ChannelKeys |-> <<>>]]

MapHas(m, k) == \E i \in 1..Len(m.keys) : m.keys[i] = k

\* if (!epgData.has(channelId)) epgData.set(channelId, []); epgData.get(channelId)?.push(p)
MapPush(m, k, p) ==
    [keys  |-> IF MapHas(m, k) THEN m.keys ELSE Append(m.keys, k),
     progs |-> [m.progs EXCEPT ![k] = Append(@, p)]]

MutNewMap == epgData

\* const epgData: EpgData = new Map()
NewMap == EmptyMap

\* x?.textContent || fallback
TextOr(a, fallback) == IF Falsy(a) THEN fallback ELSE a.val

\* the Programme built from a node (the further descriptive fields are read
\* like title and are not modelled)
ProgrammeOf(node) ==
    [channelId |-> node.channel.val,
     start     |-> parseEpgDate(node.start.val),
     stop      |-> parseEpgDate(node.stop.val),
     title     |-> TextOr(node.title, <<"No Title">>)]

\* if (!channelId || !startStr || !stopStr)
MissingAttr(node) == Falsy(node.channel) \/ Falsy(node.start) \/ Falsy(node.stop)

\* if (!start || !stop): only null is falsy, an Invalid Date is an object
MissingDate(node) ==
    \/ parseEpgDate(node.start.val).kind = "null"
    \/ parseEpgDate(node.stop.val).kind = "null"

MutAfterSkip(i, n) == n + 1

\* `continue`: the loop goes on with the next node
AfterSkip(i, n) == i + 1

NoIndex        == [kind |-> "none", index |-> EmptyMap]
IndexResult(m) == [kind |-> "index", index |-> m]
ErrorResult    == [kind |-> "error", index |-> EmptyMap]

EpgInit ==
    /\ epc = "fetch"
    /\ edoc \in Documents
    /\ ei = 0
    /\ epgData = EmptyMap
    /\ ecount = [processed |-> 0, skipped |-> 0]
    /\ eresult = NoIndex
    /\ efail = "none"
    /\ eprev = NoIndex
    /\ ecalls = 0

EpgIdle ==
    /\ epc = "idle"
    /\ edoc = [wellFormed |-> FALSE, nodes |-> <<>>]
    /\ ei = 0
    /\ epgData = EmptyMap
    /\ ecount = [processed |-> 0, skipped |-> 0]
    /\ eresult = NoIndex
    /\ efail = "none"
    /\ eprev = NoIndex
    /\ ecalls = 0

\* the catch block: log and rethrow
EpgRaise(cause) ==
    /\ eresult' = ErrorResult
    /\ efail' = cause
    /\ epc' = "raised"
    /\ UNCHANGED <<edoc, ei, epgData, ecount, eprev, ecalls>>

\* await resilientFetch(EPG_URL, ...) rejects
EpgFetchReject ==
    /\ epc = "fetch"
    /\ EpgRaise("fetch")
    /\ UNCHANGED notEpg

\* await resilientFetch(EPG_URL, ...) resolves
EpgFetchResolve ==
    /\ epc = "fetch"
    /\ epc' = "text"
    /\ UNCHANGED <<edoc, ei, epgData, ecount, eresult, efail, eprev, ecalls>>
    /\ UNCHANGED notEpg

\* await response.text() rejects
EpgTextReject ==
    /\ epc = "text"
    /\ EpgRaise("text")
    /\ UNCHANGED notEpg

\* await response.text() resolves: the text is parsed
EpgTextResolve ==
    /\ epc = "text"
    /\ IF ParserErrors(edoc) > 0
       THEN EpgRaise("xml")
       ELSE /\ epgData' = NewMap
            /\ ecount' = [processed |-> 0, skipped |-> 0]
            /\ ei' = 1
            /\ epc' = "loop"
            /\ UNCHANGED <<edoc, eresult, efail, eprev, ecalls>>
    /\ UNCHANGED notEpg

\* one round of  for (const node of Array.from(programmeNodes))
EpgNode ==
    /\ epc = "loop"
    /\ ei <= Len(edoc.nodes)
    /\ LET node == edoc.nodes[ei]
       IN  IF MissingAttr(node) \/ MissingDate(node)
           THEN /\ ecount' = [ecount EXCEPT !.skipped = @ + 1]
                /\ ei' = AfterSkip(ei, Len(edoc.nodes))
                /\ UNCHANGED epgData
           ELSE /\ epgData' = MapPush(epgData, node.channel.val, ProgrammeOf(node))
                /\ ecount' = [ecount EXCEPT !.processed = @ + 1]
                /\ ei' = ei + 1
    /\ UNCHANGED <<epc, edoc, eresult, efail, eprev, ecalls>>
    /\ UNCHANGED notEpg

\* return epgData
EpgReturn ==
    /\ epc = "loop"
    /\ ei > Len(edoc.nodes)
    /\ eresult' = IndexResult(epgData)
    /\ epc' = "returned"
    /\ UNCHANGED <<edoc, ei, epgData, ecount, efail, eprev, ecalls>>
    /\ UNCHANGED notEpg

\* the guide is refreshed: fetchEpg is called again and the source serves the
\* same payload
EpgAgain ==
    /\ epc \in {"returned", "raised"}
    /\ ecalls + 1 < MaxEpgCalls
    /\ ecalls' = ecalls + 1
    /\ eprev' = eresult
    /\ eresult' = NoIndex
    /\ efail' = "none"
    /\ ei' = 0
    /\ epc' = "fetch"
    /\ UNCHANGED <<edoc, epgData, ecount>>
    /\ UNCHANGED notEpg

EpgNext ==
    \/ EpgFetchReject
    \/ EpgFetchResolve
    \/ EpgTextReject
    \/ EpgTextResolve
    \/ EpgNode
    \/ EpgReturn
    \/ EpgAgain

(***************************************************************************)
(* fetchChannels                                                           *)
(* a channel name is the sequence of its characters; the letter a with     *)
(* macron is written "a_macron"                                            *)
(***************************************************************************)
MaxChannels == 3

PRIORITY_CHANNELS ==
    << <<"T", "V", "N", "Z", " ", "1">>,
       <<"T", "V", "N", "Z", " ", "2">>,
       <<"T", "h", "r", "e", "e">>,
       <<"B", "r", "a", "v", "o">>,
       <<"W", "h", "a", "k", "a", "a", "t", "a", " ", "M", "a_macron", "o", "r", "i">>,
       <<"S", "k", "y", " ", "O", "p", "e", "n">>,
       <<"T", "V", "N", "Z", " ", "D", "u", "k", "e">>,
       <<"E", "d", "e", "n">>,
       <<"T", "e", " ", "R", "e", "o">>,
       <<"R", "u", "s", "h">>,
       <<"A", "l", " ", "J", "a", "z", "e", "e", "r", "a">>,
       <<"H", "G", "T", "V">> >>

UpperLetters == <<"A", "B", "C", "D", "E", "F", "G", "H", "I", "J", "K", "L", "M", "N", "O", "P", "Q", "R", "S", "T", "U", "V", "W", "X", "Y", "Z">>

LowerLetters == <<"a", "b", "c", "d", "e", "f", "g", "h", "i", "j", "k", "l", "m", "n", "o", "p", "q", "r", "s", "t", "u", "v", "w", "x", "y", "z">>

\* String.prototype.toLowerCase, character by character
LowerChar(c) ==
    IF \E i \in 1..26 : UpperLetters[i] = c
    THEN LowerLetters[CHOOSE i \in 1..26 : UpperLetters[i] = c]
    ELSE IF c = "A_macron" THEN "a_macron" ELSE c

toLowerCase(s) == [i \in 1..Len(s) |-> LowerChar(s[i])]

\* getPriorityIndex(name), counted from 1: NumPriority + 1 is "not a priority channel"
NumPriority == Len(PRIORITY_CHANNELS)

FirstPrefixIndex(name) ==
    LET hits == {i \in 1..NumPriority :
                    StartsWith(toLowerCase(name), toLowerCase(PRIORITY_CHANNELS[i]))}
    IN  IF hits = {} THEN 0 ELSE CHOOSE i \in hits : \A j \in hits : i <= j

DukeIndex ==
    LET hits == {i \in 1..NumPriority :
                    toLowerCase(PRIORITY_CHANNELS[i]) = <<"t", "v", "n", "z", " ", "d", "u", "k", "e">>}
    IN  IF hits = {} THEN 0 ELSE CHOOSE i \in hits : \A j \in hits : i <= j

getPriorityIndex(name) ==
    IF FirstPrefixIndex(name) # 0 THEN FirstPrefixIndex(name)
    ELSE IF StartsWith(toLowerCase(name), <<"d", "u", "k", "e">>) /\ DukeIndex # 0 THEN DukeIndex
    ELSE NumPriority + 1

\* a.name.localeCompare(b.name) < 0 in the root collation: letters compare
\* without regard to case or macron, a space sorts before digits and digits
\* before letters; names equal so far are told apart by case, lower case first
CollationOrder == <<" ", "0", "1", "2", "3", "4", "5", "6", "7", "8", "9", "a", "b", "c", "d", "e", "f", "g", "h", "i", "j", "k", "l", "m", "n", "o", "p", "q", "r", "s", "t", "u", "v", "w", "x", "y", "z">>

BaseChar(c) == IF LowerChar(c) = "a_macron" THEN "a" ELSE LowerChar(c)

CharRank(c) == CHOOSE i \in 1..Len(CollationOrder) : CollationOrder[i] = BaseChar(c)

RECURSIVE PrimaryCompare(_, _)
PrimaryCompare(a, b) ==
    IF a = <<>> THEN (IF b = <<>> THEN 0 ELSE -1)
    ELSE IF b = <<>> THEN 1
    ELSE IF CharRank(Head(a)) < CharRank(Head(b)) THEN -1
    ELSE IF CharRank(Head(a)) > CharRank(Head(b)) THEN 1
    ELSE PrimaryCompare(Tail(a), Tail(b))

RECURSIVE CaseCompare(_, _)
CaseCompare(a, b) ==
    IF a = <<>> \/ b = <<>> THEN 0
    ELSE IF Head(a) = Head(b) THEN CaseCompare(Tail(a), Tail(b))
    ELSE IF Head(a) = LowerChar(Head(a)) THEN -1 ELSE 1

localeCompare(a, b) ==
    IF PrimaryCompare(a, b) # 0 THEN PrimaryCompare(a, b) ELSE CaseCompare(a, b)

\* the comparator handed to channels.sort
CompareChannels(a, b) ==
    IF getPriorityIndex(a.name) # getPriorityIndex(b.name)
    THEN getPriorityIndex(a.name) - getPriorityIndex(b.name)
    ELSE localeCompare(a.name, b.name)

\* Array.prototype.sort is stable: x goes behind every element that does not
\* compare greater than it
InsertSorted(sorted, x) ==
    LET before == {i \in 1..Len(sorted) : CompareChannels(sorted[i], x) <= 0}
        n      == IF before = {} THEN 0 ELSE CHOOSE i \in before : \A j \in before : j <= i
    IN  SubSeq(sorted, 1, n) \o <<x>> \o SubSeq(sorted, n + 1, Len(sorted))

RECURSIVE SortFrom(_, _)
SortFrom(rest, sorted) ==
    IF rest = <<>> THEN sorted
    ELSE SortFrom(Tail(rest), InsertSorted(sorted, Head(rest)))

SortChannels(channels) == SortFrom(channels, <<>>)

\* ---- the directory the source serves ----
NameTvnz1      == <<"T", "V", "N", "Z", " ", "1">>
NameThree      == <<"T", "h", "r", "e", "e">>
NameAlJazeera  == <<"A", "l", " ", "J", "a", "z", "e", "e", "r", "a">>
NameDuke       == <<"D", "U", "K", "E">>
NameBravo      == <<"B", "r", "a", "v", "o">>
NameZed        == <<"Z", "e", "d">>
NameChoice     == <<"C", "h", "o", "i", "c", "e", " ", "T", "V">>

\* an entry of the directory: null, a number, or an object with the fields it has
Entry(kind, id, name, logo, url, master, epg) ==
    [kind |-> kind, id |-> id, name |-> name, logo |-> logo, url |-> url,
     mjh_master |-> master, epg_id |-> epg]

Obj(id, name) ==
    Entry("object", id, name, <<"logo.png">>, <<"https://i.mjh.nz/", id, ".m3u8">>,
          <<"https://i.mjh.nz/", id, ".m3u8">>, <<id>>)

EntTvnz1     == Obj("mjh-tvnz-1", NameTvnz1)
EntThree     == Obj("mjh-three", NameThree)
EntAlJazeera == Obj("mjh-al-jazeera", NameAlJazeera)
EntDuke      == Obj("mjh-tvnz-duke", NameDuke)
EntZed       == Obj("mjh-zed", NameZed)
EntChoice    == Obj("mjh-choice", NameChoice)
EntNoLogo    == [Obj("mjh-bravo", NameBravo) EXCEPT !.logo = <<>>]
EntNull      == Entry("null", "mjh-null", <<>>, <<>>, <<>>, <<>>, <<>>)
EntNumber    == Entry("number", "mjh-number", <<>>, <<>>, <<>>, <<>>, <<>>)

Entries == {EntTvnz1, EntThree, EntAlJazeera, EntDuke, EntZed, EntChoice,
            EntNoLogo, EntNull, EntNumber}

EntrySeqs == UNION {[1..n -> Entries] : n \in 0..MaxChannels}

\* the keys of an object are distinct
DistinctIds(es) == \A i, j \in 1..Len(es) : es[i].id = es[j].id => i = j

\* the body of the answer: text that is no JSON, a JSON value that is no
\* object or array (null, a number, a string), an array of entries, an
\* object with a channels array, or an object keyed by channel id
Directories ==
    { [shape |-> s, entries |-> <<>>] : s \in {"nonjson", "null", "number", "string"} }
      \cup { [shape |-> s, entries |-> es] : s \in {"array", "wrapped"}, es \in EntrySeqs }
      \cup { [shape |-> "keyed", entries |-> es] : es \in {e \in EntrySeqs : DistinctIds(e)} }

\* c.name && c.logo && c.url && c.epg_id
ArrayKeeps(c) == c.name # <<>> /\ c.logo # <<>> /\ c.url # <<>> /\ c.epg_id # <<>>

\* channelData.name && channelData.logo && channelData.mjh_master && channelData.epg_id
KeyedKeeps(c) ==
    c.name # <<>> /\ c.logo # <<>> /\ c.mjh_master # <<>> /\ c.epg_id # <<>>

\* reading a property of null throws a TypeError
Throws(es) == \E i \in 1..Len(es) : es[i].kind = "null"

\* the Channel built from an entry of the keyed object (network, category,
\* headers and needsProxy are set beside these fields and are not modelled)
ChannelOf(c) ==
    [id |-> c.id, name |-> c.name, logo |-> c.logo, url |-> c.mjh_master,
     epg_id |-> c.epg_id]

ChannelList(l) == [kind |-> "list", list |-> l]
ChannelError   == [kind |-> "error", list |-> <<>>]
NoChannels     == [kind |-> "none", list |-> <<>>]

\* the inner catch: throw new Error("Could not read channel data. ...")
OnInvalidJson == ChannelError

\* what fetchChannels does with the text of the answer
ReadDirectory(dir) ==
    IF dir.shape = "nonjson" THEN OnInvalidJson
    ELSE IF dir.shape = "array" \/ dir.shape = "wrapped"
    THEN IF Throws(dir.entries) THEN OnInvalidJson
         ELSE ChannelList(SelectSeq(dir.entries, ArrayKeeps))
    ELSE IF dir.shape = "keyed"
    THEN IF Throws(dir.entries) THEN OnInvalidJson
         ELSE LET kept == SelectSeq(dir.entries, KeyedKeeps)
              IN  ChannelList(SortChannels([i \in 1..Len(kept) |-> ChannelOf(kept[i])]))
    ELSE ChannelList(<<>>)

CatalogInit ==
    /\ kpc = "fetch"
    /\ kdir \in Directories
    /\ kresult = NoChannels
    /\ kfail = "none"

CatalogIdle ==
    /\ kpc = "idle"
    /\ kdir = [shape |-> "null", entries |-> <<>>]
    /\ kresult = NoChannels
    /\ kfail = "none"

\* await resilientFetch(CHANNELS_URL) rejects: the outer catch rethrows
CatFetchReject ==
    /\ kpc = "fetch"
    /\ kresult' = ChannelError
    /\ kfail' = "fetch"
    /\ kpc' = "raised"
    /\ UNCHANGED kdir
    /\ UNCHANGED notCatalog

\* await resilientFetch(CHANNELS_URL) resolves
CatFetchResolve ==
    /\ kpc = "fetch"
    /\ kpc' = "text"
    /\ UNCHANGED <<kdir, kresult, kfail>>
    /\ UNCHANGED notCatalog

\* await response.text() rejects
CatTextReject ==
    /\ kpc = "text"
    /\ kresult' = ChannelError
    /\ kfail' = "text"
    /\ kpc' = "raised"
    /\ UNCHANGED kdir
    /\ UNCHANGED notCatalog

\* await response.text() resolves: the text is parsed and the list built
CatTextResolve ==
    /\ kpc = "text"
    /\ kresult' = ReadDirectory(kdir)
    /\ kpc' = IF ReadDirectory(kdir).kind = "error" THEN "raised" ELSE "returned"
    /\ kfail' = IF ReadDirectory(kdir).kind = "error" THEN "read" ELSE "none"
    /\ UNCHANGED kdir
    /\ UNCHANGED notCatalog

CatalogNext ==
    \/ CatFetchReject
    \/ CatFetchResolve
    \/ CatTextReject
    \/ CatTextResolve

(***************************************************************************)
(* App.loadData                                                            *)
(* the catalog is the sequence of its channel ids, the guide the sequence  *)
(* of its channel keys, a message the sequence of its words                *)
(***************************************************************************)
MaxLoads == 2

\* what fetchChannels() may resolve with and reject with
ChannelLists == { <<>>, <<"mjh-tvnz-1">>, <<"mjh-tvnz-1", "mjh-three">> }

ChannelErrors ==
    { <<"Could not read channel data. The service might be returning an invalid format.">>,
      <<"All proxies failed.">> }

\* what fetchEpg() may resolve with and reject with
Guides == { <<"mjh-tvnz-1">>, <<"mjh-tvnz-1", "mjh-three">> }

EpgErrors ==
    { <<"Could not read EPG data. The service might be returning an invalid format.">>,
      <<"All proxies failed.">> }

NoError == <<>>

\* a promise: not made yet, pending, fulfilled with a value, rejected with a
\* reason
NotMade     == [st |-> "none", val |-> <<>>]
Pending     == [st |-> "pending", val |-> <<>>]
Fulfilled(v) == [st |-> "ok", val |-> v]
Rejected(m)  == [st |-> "failed", val |-> m]

\* Promise.all of two promises after one of them settled: it rejects with the
\* first rejection and fulfils when both are fulfilled
PromiseAll(all, settled, other) ==
    IF all.st # "pending" THEN all
    ELSE IF settled.st = "failed" THEN Rejected(settled.val)
    ELSE IF other.st = "ok" THEN Fulfilled(<<>>)
    ELSE all

MutOnChannelsResolved(data) == data

\* the state channels when fetchChannels() resolves: nothing is committed
\* before Promise.all has fulfilled
OnChannelsResolved(data) == achannels

AppInit ==
    /\ apc = "mounted"
    /\ achannels = <<>>
    /\ aepg = <<>>
    /\ loading = TRUE
    /\ error = NoError
    /\ active = <<>>
    /\ chf = NotMade
    /\ epf = NotMade
    /\ pall = NotMade
    /\ atStart = <<achannels, aepg>>
    /\ loads = 0

AppIdle ==
    /\ apc = "off"
    /\ achannels = <<>>
    /\ aepg = <<>>
    /\ loading = TRUE
    /\ error = NoError
    /\ active = <<>>
    /\ chf = NotMade
    /\ epf = NotMade
    /\ pall = NotMade
    /\ atStart = << <<>>, <<>> >>
    /\ loads = 0

\* loadData up to its await: called by the mount effect, or by the Retry button
\* that is shown while error is set
LoadStart ==
    /\ \/ apc = "mounted"
       \/ apc = "finished" /\ error # NoError
    /\ loads < MaxLoads
    /\ loads' = loads + 1
    /\ loading' = TRUE
    /\ error' = NoError
    /\ chf' = Pending
    /\ epf' = Pending
    /\ pall' = Pending
    /\ atStart' = <<achannels, aepg>>
    /\ apc' = "await"
    /\ UNCHANGED <<achannels, aepg, active>>
    /\ UNCHANGED notApp

\* fetchChannels() resolves (also after loadData has finished on the other
\* fetch's failure)
ChannelsResolve ==
    /\ chf = Pending
    /\ \E data \in ChannelLists :
        /\ chf' = Fulfilled(data)
        /\ pall' = PromiseAll(pall, Fulfilled(data), epf)
        /\ achannels' = OnChannelsResolved(data)
    /\ UNCHANGED <<apc, aepg, loading, error, active, epf, atStart, loads>>
    /\ UNCHANGED notApp

\* fetchChannels() rejects
ChannelsReject ==
    /\ chf = Pending
    /\ \E msg \in ChannelErrors :
        /\ chf' = Rejected(msg)
        /\ pall' = PromiseAll(pall, Rejected(msg), epf)
    /\ UNCHANGED <<apc, achannels, aepg, loading, error, active, epf, atStart, loads>>
    /\ UNCHANGED notApp

\* fetchEpg() resolves
EpgResolve ==
    /\ epf = Pending
    /\ \E data \in Guides :
        /\ epf' = Fulfilled(data)
        /\ pall' = PromiseAll(pall, Fulfilled(data), chf)
    /\ UNCHANGED <<apc, achannels, aepg, loading, error, active, chf, atStart, loads>>
    /\ UNCHANGED notApp

\* fetchEpg() rejects
EpgReject ==
    /\ epf = Pending
    /\ \E msg \in EpgErrors :
        /\ epf' = Rejected(msg)
        /\ pall' = PromiseAll(pall, Rejected(msg), chf)
    /\ UNCHANGED <<apc, achannels, aepg, loading, error, active, chf, atStart, loads>>
    /\ UNCHANGED notApp

\* the await returns: the rest of the try block, then finally
LoadCommit ==
    /\ apc = "await"
    /\ pall.st = "ok"
    /\ achannels' = chf.val
    /\ aepg' = epf.val
    /\ active' = IF Len(chf.val) > 0 THEN <<chf.val[1]>> ELSE active
    /\ loading' = FALSE
    /\ apc' = "finished"
    /\ UNCHANGED <<error, chf, epf, pall, atStart, loads>>
    /\ UNCHANGED notApp

\* the await throws: the catch block, then finally
LoadFail ==
    /\ apc = "await"
    /\ pall.st = "failed"
    /\ error' = pall.val
    /\ loading' = FALSE
    /\ apc' = "finished"
    /\ UNCHANGED <<achannels, aepg, active, chf, epf, pall, atStart, loads>>
    /\ UNCHANGED notApp

AppNext ==
    \/ LoadStart
    \/ ChannelsResolve
    \/ ChannelsReject
    \/ EpgResolve
    \/ EpgReject
    \/ LoadCommit
    \/ LoadFail

(***************************************************************************)
(* Specifications: one part runs, the others are idle                      *)
(***************************************************************************)
InitFetch ==
    /\ FetchInit
    /\ RewriteIdle
    /\ GatewayIdle
    /\ ChainIdle
    /\ DateIdle
    /\ EpgIdle
    /\ CatalogIdle
    /\ AppIdle

SpecFetch == InitFetch /\ [][FetchNext]_vars

\* resilientFetch with its scheduling: the code after an await runs once the
\* awaited promise has settled (the request is issued, an aborted fetch
\* rejects), and every attempt ends, by its deadline timer at the latest
SpecFetchLive ==
    /\ InitFetch
    /\ [][FetchNext]_vars
    /\ WF_vars(IssueRequest)
    /\ WF_vars(Respond \/ TransportFail \/ TimerFires)
    /\ WF_vars(AbortRejects)

InitRewrite ==
    /\ RewriteInit
    /\ FetchIdle
    /\ GatewayIdle
    /\ ChainIdle
    /\ DateIdle
    /\ EpgIdle
    /\ CatalogIdle
    /\ AppIdle

SpecRewrite == InitRewrite /\ [][RewriteNext]_vars

InitGateway ==
    /\ GatewayInit
    /\ FetchIdle
    /\ RewriteIdle
    /\ ChainIdle
    /\ DateIdle
    /\ EpgIdle
    /\ CatalogIdle
    /\ AppIdle

SpecGateway == InitGateway /\ [][GatewayNext]_vars

InitChain ==
    /\ ChainInit
    /\ FetchIdle
    /\ RewriteIdle
    /\ GatewayIdle
    /\ DateIdle
    /\ EpgIdle
    /\ CatalogIdle
    /\ AppIdle

SpecChain == InitChain /\ [][ChainNext]_vars

InitDate ==
    /\ DateInit
    /\ FetchIdle
    /\ RewriteIdle
    /\ GatewayIdle
    /\ ChainIdle
    /\ EpgIdle
    /\ CatalogIdle
    /\ AppIdle

SpecDate == InitDate /\ [][DateNext]_vars

InitEpg ==
    /\ EpgInit
    /\ FetchIdle
    /\ RewriteIdle
    /\ GatewayIdle
    /\ ChainIdle
    /\ DateIdle
    /\ CatalogIdle
    /\ AppIdle

SpecEpg == InitEpg /\ [][EpgNext]_vars

InitCatalog ==
    /\ CatalogInit
    /\ FetchIdle
    /\ RewriteIdle
    /\ GatewayIdle
    /\ ChainIdle
    /\ DateIdle
    /\ EpgIdle
    /\ AppIdle

SpecCatalog == InitCatalog /\ [][CatalogNext]_vars

InitApp ==
    /\ AppInit
    /\ FetchIdle
    /\ RewriteIdle
    /\ GatewayIdle
    /\ ChainIdle
    /\ DateIdle
    /\ EpgIdle
    /\ CatalogIdle

SpecApp == InitApp /\ [][AppNext]_vars

(***************************************************************************)
(* Claims about resilientFetch (checked under SpecFetch)                   *)
(***************************************************************************)
InOrder(log) == log = [i \in 1..Len(log) |-> i]

\* C1: if candidates 1..k-1 fail and candidate k succeeds, the call returns
\* candidate k's response and no request is issued to candidates k+1..N.
C1_FirstSuccessReturned ==
    \A k \in Candidates :
        ( /\ Len(outcomes) >= k
          /\ outcomes[k].how = "ok"
          /\ \A j \in 1..(k - 1) : outcomes[j].how # "ok" )
        => /\ fpc \in {"returned", "idle"}
           /\ result = Response(k, outcomes[k].status)
           /\ requests = [i \in 1..k |-> i]

C1_Witness ==
    /\ fpc = "returned"
    /\ Len(outcomes) = NumProxies
    /\ outcomes[1].how = "transport"
    /\ outcomes[2].how = "status"
    /\ outcomes[NumProxies].how = "ok"

\* C2 (as stated): when every candidate fails, the raised message contains the
\* last proxy's and the direct attempt's failure messages and contains no
\* earlier proxy's failure message.
C2_Original ==
    fpc = "raised" =>
        /\ result.kind = "error"
        /\ Contains(result.msg, texts[NumProxies])
        /\ Contains(result.msg, texts[Direct])
        /\ \A j \in 1..(NumProxies - 1) : ~Contains(result.msg, texts[j])

\* C2 (amended): when every candidate fails, the one raised message is the fixed
\* template around the last proxy's and the direct attempt's failure messages,
\* and it contains no earlier proxy's failure message that differs from both.
C2_Aggregated ==
    fpc = "raised" =>
        /\ Len(texts) = Direct
        /\ result = Raised(<<"All proxies failed. Last error: ">> \o texts[NumProxies]
                 \o <<". Direct connection also failed with message: \"">>
                 \o texts[Direct] \o <<"\"">>)
        /\ Contains(result.msg, texts[NumProxies])
        /\ Contains(result.msg, texts[Direct])
        /\ \A j \in 1..(NumProxies - 1) :
              (texts[j] # texts[NumProxies] /\ texts[j] # texts[Direct])
                  => ~Contains(result.msg, texts[j])

C2_Witness ==
    /\ fpc = "raised"
    /\ outcomes[1].how = "status"
    /\ outcomes[2].how = "timeout"
    /\ outcomes[NumProxies].how = "transport"
    /\ outcomes[Direct].how = "status"

\* C3: an attempt answered with a non-2xx status is handled like one that failed
\* at transport level: no response is returned, a proxy's failure moves the loop
\* to the next candidate, the direct attempt's failure raises.
C3_StatusLikeTransport ==
    [][ ( /\ Len(outcomes') = Len(outcomes) + 1
          /\ Last(outcomes').how \in {"status", "transport"} )
        => /\ result'.kind # "response"
           /\ IF cand <= NumProxies
              THEN fpc' = "issue" /\ cand' = cand + 1 /\ lastError' = Last(texts')
              ELSE fpc' = "raised" /\ result'.kind = "error" ]_vars

C3_Witness ==
    /\ fpc = "raised"
    /\ outcomes[2].how = "status"
    /\ outcomes[Direct].how = "status"
    /\ outcomes[Direct].status = 503

\* C4: every call attempts the candidates from the first proxy on in the fixed
\* order, whatever earlier calls did, and no candidate twice within a call.
C4_FixedOrderStateless ==
    /\ InOrder(requests)
    /\ Len(requests) <= Direct

C4_Witness ==
    /\ calls = 1
    /\ prevGood = 2
    /\ fpc = "await"
    /\ requests = <<1, 2, 3>>

(***************************************************************************)
(* Claims about the gateway (checked under SpecGateway)                    *)
(***************************************************************************)
\* C5: a request that carries no url parameter is answered with 400 and no
\* upstream fetch is issued, in every handler.
C5_MissingUrl400 ==
    (gpc # "idle" /\ ~greq.hasUrl)
        => /\ gfetched = <<>>
           /\ gpc = "done"
           /\ gres.sentStatus = 400

\* C6: a non-2xx upstream status S reaches the client as status S, in every
\* handler.
C6_UpstreamStatusEchoed ==
    (gpc = "done" /\ gfate = "answered" /\ ~IsOk(gup.status))
        => gres.sentStatus = gup.status

\* C7: when the upstream fetch fails at network level the client receives
\* status 500 with a text body that carries the diagnostic, and no other status.
C7_NetworkFailure500 ==
    (gpc = "done" /\ gfate = "rejected")
        => /\ gres.sentStatus = 500
           /\ gres.ended
           /\ ~gres.late
           /\ Len(gres.body) = 1
           /\ Contains(gres.body[1], FetchErrorText)

C7_Witness ==
    /\ gpc = "done"
    /\ gfate = "rejected"
    /\ gimpl = "vercel"
    /\ gtarget = TargetSegment
    /\ gres.sentStatus = 500

\* C8: on every path the client (as long as it stays connected) receives exactly
\* one complete response, and no error answer is attempted after headers or body
\* bytes were written.
C8_OneCompleteResponse ==
    (gpc = "done" /\ gclient = "connected") => (gres.ended /\ ~gres.late)

\* C9: every response the gateway sends carries Access-Control-Allow-Origin: *,
\* Access-Control-Allow-Methods: GET, HEAD, OPTIONS and
\* Access-Control-Allow-Headers: *.
C9_CorsOnEveryResponse ==
    gres.headersSent
        => /\ gres.headers[ACAO] = <<"*">>
           /\ gres.headers[ACAM] = <<"GET, HEAD, OPTIONS">>
           /\ gres.headers[ACAH] = <<"*">>


(***************************************************************************)
(* Claims about the manifest rewrite (checked under SpecRewrite)           *)
(***************************************************************************)
IsComment(line) == line # <<>> /\ line[1] = "#"

\* out is <gateway-base>?url=<percent-encoded resolution of ref against target>
IsGatewayUrlFor(out, ref, target) ==
    LET tail == <<"?", "url", "=">> \o encodeURIComponent(ResolveUrl(ref, target))
    IN  EndsWith(out, tail) /\ Len(out) > Len(tail)

\* C10: every non-comment line that is a relative reference is replaced by
\* <gateway-base>?url= followed by the percent-encoding of the reference resolved
\* against the manifest's base URL; every absolute URL line is left unchanged.
C10_BareLinesRewritten ==
    rpc = "rewritten" =>
        /\ Len(rout) = Len(rmanifest)
        /\ \A i \in 1..Len(rmanifest) :
              LET line == rmanifest[i]
              IN  /\ IsAbsoluteUrl(line) => rout[i] = line
                  /\ (line # <<>> /\ ~IsComment(line) /\ ~IsAbsoluteUrl(line))
                        => IsGatewayUrlFor(rout[i], line, rtarget)

\* position of the opening quote of the first URI="..." attribute of a line, 0
\* when the line has none
UriQuoteAt(line) ==
    LET ps == {p \in 3..Len(line) :
                 line[p - 2] = "URI" /\ line[p - 1] = "=" /\ line[p] = "\""}
    IN  IF ps = {} THEN 0 ELSE CHOOSE p \in ps : \A q \in ps : p <= q

\* the value between the quotes of that attribute
UriValue(line) ==
    LET o == UriQuoteAt(line)
        c == IndexFrom(line, "\"", o + 1)
    IN  SubSeq(line, o + 1, c - 1)

\* C11: a URI="..." attribute whose value is an absolute URL is left unchanged,
\* and one whose value is relative is replaced by the gateway URL whose url
\* parameter is the percent-encoded resolution of the whole attribute value.
C11_UriAttrsRewritten ==
    (rpc = "rewritten" /\ Len(rout) = Len(rmanifest)) =>
        \A i \in 1..Len(rmanifest) :
            LET line == rmanifest[i]
                o    == UriQuoteAt(line)
                v    == UriValue(line)
                pre  == SubSeq(line, 1, o)
                post == SubSeq(line, o + Len(v) + 1, Len(line))
            IN  (IsComment(line) /\ o > 0) =>
                    IF IsAbsoluteUrl(v)
                    THEN rout[i] = line
                    ELSE /\ StartsWith(rout[i], pre)
                         /\ EndsWith(rout[i], post)
                         /\ Len(rout[i]) > Len(pre) + Len(post)
                         /\ IsGatewayUrlFor(SubSeq(rout[i], Len(pre) + 1,
                                                   Len(rout[i]) - Len(post)),
                                            v, rtarget)

(***************************************************************************)
(* Claims about playlist trees (checked under SpecChain)                   *)
(***************************************************************************)
IsHlsContentType(ct) == Contains(ct, <<MpegUrl>>) \/ Contains(ct, <<XMpegUrl>>)

\* C12: a playlist reference is rewritten to a gateway URL, so every request
\* of the chain is served by the gateway handler, every playlist the origin
\* serves as HLS is classified as a manifest and has its reference rewritten
\* against its own base URL, at every level alike, and the chain ends at the
\* media segment.
C12_ChainThroughGateway ==
    /\ \A i \in 1..Len(chops) :
          (\A j \in 1..i : chops[j].kind = "playlist" => IsHlsContentType(chops[j].ct))
              => /\ chops[i].gateway
                 /\ chops[i].status = 200
                 /\ chops[i].kind = "playlist"
                      => /\ chops[i].manifest
                         /\ IsGatewayUrl(cimpl, ReferenceOf(chops[i].body))
                         /\ IsGatewayUrlFor(ReferenceOf(chops[i].body),
                                            ReferenceOf(OriginResource(cdepth,
                                                          chops[i].target).body),
                                            chops[i].target)
    /\ cpc \in {"done", "failed"}
          => ((\A j \in 1..Len(chops) :
                   chops[j].kind = "playlist" => IsHlsContentType(chops[j].ct))
                 => /\ cpc = "done"
                    /\ Len(chops) = cdepth + 1
                    /\ Last(chops).kind = "segment")

(***************************************************************************)
(* Claims about fetchEpg (checked under SpecEpg)                           *)
(***************************************************************************)
\* the timestamps of the inputs that are in the documented format
GoodStamps == {Stamp(At(h)) : h \in 0..2}

LacksAttr(node) == ~node.channel.has \/ ~node.start.has \/ ~node.stop.has

WellFormedNode(node) ==
    /\ ~LacksAttr(node)
    /\ node.channel.val # <<>>
    /\ node.start.val \in GoodStamps
    /\ node.stop.val \in GoodStamps

\* the programmes of the well-formed elements of channel k, in document order
WellFormedFor(k, nodes) ==
    LET sel == SelectSeq(nodes, LAMBDA n : WellFormedNode(n) /\ n.channel.val = k)
    IN  [i \in 1..Len(sel) |-> ProgrammeOf(sel[i])]

\* C13: an element that lacks channel, start or stop is left out of the index
\* and the elements after it are still processed: for a document whose
\* elements are either such elements or well-formed, the index holds exactly
\* the well-formed ones.
C13_SkipsAndContinues ==
    ( /\ epc = "returned"
      /\ \A i \in 1..Len(edoc.nodes) :
            LacksAttr(edoc.nodes[i]) \/ WellFormedNode(edoc.nodes[i]) )
        => \A k \in ChannelKeys :
              eresult.index.progs[k] = WellFormedFor(k, edoc.nodes)

C13_Witness ==
    /\ epc = "returned"
    /\ edoc.nodes = <<ElemNoStop, ElemNews, ElemThree>>
    /\ eresult.index.progs[ChannelOne] = <<ProgrammeOf(ElemNews)>>
    /\ eresult.index.progs[ChannelTwo] = <<ProgrammeOf(ElemThree)>>
    /\ ecount.skipped = 1

\* C14: an element whose start or stop does not parse to a valid instant is
\* skipped, so every programme of the returned index has a valid start and a
\* valid stop.
C14_IndexedInstantsValid ==
    epc = "returned" =>
        \A k \in ChannelKeys :
            \A i \in 1..Len(eresult.index.progs[k]) :
                /\ eresult.index.progs[k][i].start.valid
                /\ eresult.index.progs[k][i].stop.valid

\* C15: in the returned index every channel's programmes are ordered by start
\* ascending, whatever the order of the elements in the document.
C15_OrderedByStart ==
    epc = "returned" =>
        \A k \in ChannelKeys :
            \A i, j \in 1..Len(eresult.index.progs[k]) :
                ( /\ i < j
                  /\ eresult.index.progs[k][i].start.valid
                  /\ eresult.index.progs[k][j].start.valid )
                    => eresult.index.progs[k][i].start.time
                           <= eresult.index.progs[k][j].start.time

KeySet(m) == {m.keys[i] : i \in 1..Len(m.keys)}

\* C16: parsing the same document twice gives two indices with the same keys
\* and, for each key, the same programme sequence in the same order.
C16_SameDocumentSameIndex ==
    (epc = "returned" /\ eprev.kind = "index") =>
        /\ KeySet(eresult.index) = KeySet(eprev.index)
        /\ \A k \in ChannelKeys : eresult.index.progs[k] = eprev.index.progs[k]

C16_Witness ==
    /\ epc = "returned"
    /\ eprev.kind = "index"
    /\ ecalls = 1
    /\ KeySet(eresult.index) = ChannelKeys
    /\ Len(eresult.index.progs[ChannelOne]) = 2

\* C18: fetchEpg is all-or-nothing: while it runs the caller has nothing, a
\* failed fetch or a payload that is not well-formed XML makes it raise
\* without an index, and nothing else makes it raise.
C18_AllOrNothing ==
    /\ epc \in {"fetch", "text", "loop"} => eresult.kind = "none"
    /\ epc \in {"returned", "raised"} =>
          IF efail \in {"fetch", "text"} \/ ~edoc.wellFormed
          THEN epc = "raised" /\ eresult = ErrorResult
          ELSE epc = "returned" /\ eresult.kind = "index"

C18_Witness ==
    /\ epc = "raised"
    /\ efail = "xml"
    /\ ~edoc.wellFormed
    /\ eresult = ErrorResult

(***************************************************************************)
(* Claims about parseEpgDate (checked under SpecDate)                      *)
(***************************************************************************)
\* days from 1970-01-01 to a date of the proleptic Gregorian calendar
DaysFromCivil(y, m, d) ==
    LET yy  == IF m <= 2 THEN y - 1 ELSE y
        era == yy \div 400
        yoe == yy - era * 400
        mp  == IF m > 2 THEN m - 3 ELSE m + 9
        doy == ((153 * mp + 2) \div 5) + d - 1
        doe == yoe * 365 + (yoe \div 4) - (yoe \div 100) + doy
    IN  era * 146097 + doe - 719468

LocalSeconds(f) == DaysFromCivil(f.y, f.mo, f.d) * 86400 + f.h * 3600 + f.mi * 60 + f.s

OffsetSeconds(o) == (IF o.sign = "-" THEN -1 ELSE 1) * (o.oh * 3600 + o.om * 60)

\* the local date-time of instant t at offset o
FieldsOf(t, o) ==
    LET local == t + OffsetSeconds(o)
        day   == local \div 86400
        sec   == local % 86400
        y     == CHOOSE y \in 1970..2037 :
                    DaysFromCivil(y, 1, 1) <= day /\ day < DaysFromCivil(y + 1, 1, 1)
        m     == CHOOSE m \in 1..12 :
                    /\ DaysFromCivil(y, m, 1) <= day
                    /\ day < DaysFromCivil(y, m, 1) + DaysInMonth(y, m)
    IN  [y |-> y, mo |-> m, d |-> day - DaysFromCivil(y, m, 1) + 1,
         h |-> sec \div 3600, mi |-> (sec % 3600) \div 60, s |-> sec % 60,
         sign |-> o.sign, oh |-> o.oh, om |-> o.om]

\* C17: for a valid timestamp parseEpgDate gives the instant whose UTC value is
\* the local date-time minus the signed offset, and writing that instant in the
\* format again (at any offset) and parsing it gives the same instant.
C17_UtcAndRoundTrip ==
    (dpc = "parsed" /\ dfields # NoFields) =>
        /\ ddate = ValidDate(LocalSeconds(dfields) - OffsetSeconds(dfields))
        /\ \A o \in StampOffsets :
              parseEpgDate(Stamp(FieldsOf(ddate.time, o))) = ddate

C17_Witness ==
    /\ dpc = "parsed"
    /\ dstr = Stamp(At(0))
    /\ dfields = At(0)
    /\ ddate = ValidDate(1722081600)

(***************************************************************************)
(* Claims about fetchChannels (checked under SpecCatalog)                  *)
(***************************************************************************)
\* position of the first priority entry that is a case-insensitive prefix of
\* the name; names without one come last
PrefixRank(name) ==
    IF FirstPrefixIndex(name) = 0 THEN NumPriority + 1 ELSE FirstPrefixIndex(name)

\* C19: the returned list is ordered by the position of the first priority
\* entry that is a case-insensitive prefix of the name, names without such an
\* entry come after all others and are alphabetical among themselves, for each
\* of the three directory shapes.
C19_PriorityOrder ==
    kpc = "returned" =>
        \A i, j \in 1..Len(kresult.list) :
            i < j =>
                /\ PrefixRank(kresult.list[i].name) <= PrefixRank(kresult.list[j].name)
                /\ ( /\ FirstPrefixIndex(kresult.list[i].name) = 0
                     /\ FirstPrefixIndex(kresult.list[j].name) = 0 )
                      => PrimaryCompare(kresult.list[i].name, kresult.list[j].name) <= 0

\* the body is none of the three accepted shapes
Unrecognized(dir) ==
    \/ dir.shape \in {"nonjson", "null", "number", "string"}
    \/ /\ dir.shape = "keyed"
       /\ \E i \in 1..Len(dir.entries) : dir.entries[i].kind # "object"

\* C20: when the body that was fetched is none of the three accepted shapes,
\* fetchChannels returns an empty list and does not raise.
C20_UnrecognizedGivesEmpty ==
    ( /\ kpc \in {"returned", "raised"}
      /\ kfail \notin {"fetch", "text"}
      /\ Unrecognized(kdir) )
        => (kpc = "returned" /\ kresult = ChannelList(<<>>))


(***************************************************************************)
(* C21: every programme stored in the index returned by fetchEpg has       *)
(* start < stop (as JavaScript compares two Dates: both are valid instants *)
(* and the first is the earlier one)                                       *)
(***************************************************************************)
DateBefore(a, b) == a.valid /\ b.valid /\ a.time < b.time

C21_StartBeforeStop ==
    eresult.kind = "index" =>
        \A k \in ChannelKeys :
            \A i \in 1..Len(eresult.index.progs[k]) :
                DateBefore(eresult.index.progs[k][i].start,
                           eresult.index.progs[k][i].stop)


(***************************************************************************)
(* Further claims about resilientFetch (checked under SpecFetch)           *)
(***************************************************************************)
\* C22: within one call at most one upstream request is in flight at any time:
\* a request is issued only when every earlier request of the call has ended
\* (answered, failed or aborted), and it is then the only one in flight.
C22_OneInFlight ==
    /\ Cardinality(inflight) <= 1
    /\ inflight \subseteq {cand}
    /\ fpc = "issue" => (inflight = {} /\ Len(outcomes) = Len(requests))
    /\ fpc = "await" => Len(requests) = Len(outcomes) + 1
    /\ fpc \in {"idle", "returned", "raised"} => inflight = {}

C22_Witness ==
    /\ fpc = "await"
    /\ requests = <<1, 2>>
    /\ Len(outcomes) = 1
    /\ inflight = {2}


\* C23: when the deadline timer of the current attempt fires, that attempt's
\* request is aborted and nothing else changes; the abort ends the attempt as a
\* failure of that candidate only (a proxy's timeout moves the call to the next
\* candidate without a result, the direct attempt's timeout raises); every
\* request is issued for a candidate not tried before in the call, with an
\* un-aborted signal and with its own timer as the only armed one, so no timer
\* of a finished attempt is left to abort a later attempt.
C23_TimeoutFailsOneCandidate ==
    [][ /\ (cand \in timers /\ timers' = timers \ {cand} /\ aborted')
            => /\ cand \notin inflight'
               /\ <<fpc', cand', result', lastError'>> = <<fpc, cand, result, lastError>>
               /\ requests' = requests
        /\ (aborted /\ Len(outcomes') = Len(outcomes) + 1)
            => /\ Last(outcomes').how = "timeout"
               /\ IF cand <= NumProxies
                  THEN /\ fpc' = "issue"
                       /\ cand' = cand + 1
                       /\ result' = NoResult
                  ELSE /\ fpc' = "raised"
                       /\ result'.kind = "error"
        /\ Len(requests') = Len(requests) + 1
            => /\ Last(requests') = cand
               /\ \A i \in 1..Len(requests) : requests[i] < cand
               /\ ~aborted'
               /\ timers = {}
               /\ timers' = {cand}
               /\ inflight' = {cand}
        /\ fpc' # "await" => timers' = {}
      ]_vars

C23_Witness ==
    /\ fpc = "await"
    /\ requests = <<1, 2>>
    /\ Len(outcomes) = 1
    /\ outcomes[1].how = "timeout"
    /\ ~aborted
    /\ timers = {2}
    /\ inflight = {2}


(***************************************************************************)
(* Further claims about the gateway (checked under SpecGateway)            *)
(***************************************************************************)
\* C24: server.js and api/stream-proxy.ts treat a good upstream answer as an HLS
\* manifest (they read its text to rewrite it) exactly when its declared content
\* type contains one of the two HLS types or the target URL ends in .m3u8, also
\* with no declared content type; any other answer is streamed, and once it is
\* streamed to its end the client has the upstream's body unchanged.
ClaimedManifest(target, ct) ==
    IsHlsContentType(ct) \/ EndsWith(target, <<".", "m3u8">>)

C24_ManifestClassification ==
    ( /\ gimpl \in RewritingImpls
      /\ gfate = "answered"
      /\ IsOk(gup.status) )
        => /\ gpc \in {"read", "stream"}
               => (gpc = "read" <=> ClaimedManifest(gtarget, gup.headers[CT]))
           /\ (gpc = "done" /\ ~ClaimedManifest(gtarget, gup.headers[CT]))
               => gres.body = gup.body


(***************************************************************************)
(* Further claims about the manifest rewrite (checked under SpecRewrite)   *)
(***************************************************************************)
\* C25: the rewritten manifest has as many lines as the fetched one, in the same
\* order, and every line that starts with # and has no URI attribute is the
\* same line in the output.
C25_LinesAndDirectivesKept ==
    rpc = "rewritten" =>
        /\ Len(rout) = Len(rmanifest)
        /\ \A i \in 1..Len(rmanifest) :
              (IsComment(rmanifest[i]) /\ UriQuoteAt(rmanifest[i]) = 0)
                  => (i <= Len(rout) /\ rout[i] = rmanifest[i])


\* C26: on every response a handler sends, each access-control-* header is
\* either absent or has the value the handler itself sets; a CORS header the
\* handler does not set is absent, whatever the upstream declared.
OwnCors(impl, n) == SetCors(impl, InitialResponse(impl)).headers[n]

C26_UpstreamCorsStripped ==
    (gpc # "idle" /\ gres.headersSent) =>
        \A n \in HeaderNames :
            IsAccessControl(n) => gres.headers[n] \in {<<>>, OwnCors(gimpl, n)}


\* C27: when a handler has finished with a request for which an upstream
\* connection was opened, that connection is closed or drained, on every exit
\* path: success, upstream non-2xx, upstream error while the body is read, and
\* client disconnect while streaming.
C27_UpstreamReleased ==
    gpc = "done" => gconn \in {"none", "drained", "closed"}


\* C28: a User-Agent or X-Forwarded-For value given to the gateway as a query
\* parameter (in either spelling of the name) is the value of that header on
\* the upstream fetch, and every gateway URL a handler writes into a rewritten
\* manifest carries each forwarded-header parameter of the request.
GivenHeader(fwd, h) ==
    IF h = "user-agent"
    THEN IF fwd["User-Agent"] # <<>> THEN fwd["User-Agent"] ELSE fwd["user-agent"]
    ELSE IF fwd["X-Forwarded-For"] # <<>> THEN fwd["X-Forwarded-For"]
                                          ELSE fwd["x-forwarded-for"]

IsAGatewayUrl(line) ==
    StartsWithHttp(line) /\ Contains(line, <<"/", "stream-proxy", "?", "url", "=">>)

C28_ForwardedHeadersPropagated ==
    /\ gfetched # <<>> =>
          \A h \in FetchHeaderNames :
              GivenHeader(gfwd, h) # <<>> => gsent[h] = GivenHeader(gfwd, h)
    /\ ( /\ gpc = "done"
         /\ gimpl \in RewritingImpls
         /\ gfate = "answered"
         /\ IsOk(gup.status)
         /\ IsManifest(gimpl, gtarget, gup.headers[CT]) )
          => \A i \in 1..Len(gres.body) :
                IsAGatewayUrl(gres.body[i]) =>
                    \A k \in QueryNames :
                        gfwd[k] # <<>> =>
                            Contains(gres.body[i],
                                     <<"&", k, "=">> \o encodeURIComponent(gfwd[k]))


(***************************************************************************)
(* resilientFetch terminates (checked under SpecFetchLive)                 *)
(***************************************************************************)
\* C29: a call that has started returns a response or raises; it issues at most
\* NumProxies + 1 requests (4: three proxies and the direct attempt), and each
\* request goes to a candidate later in the order than every one before it.
C29_CallTerminates ==
    /\ [](Len(requests) <= Direct)
    /\ [][ Len(requests') = Len(requests) + 1
              => \A i \in 1..Len(requests) : requests[i] < Last(requests') ]_vars
    /\ (fpc \in {"issue", "await"}) ~> (fpc \in {"returned", "raised"})

C29_Witness ==
    /\ fpc = "raised"
    /\ requests = <<1, 2, 3, 4>>
    /\ \A k \in 1..Direct : outcomes[k].how = "timeout"


(***************************************************************************)
(* Claims about App.loadData (checked under SpecApp)                       *)
(***************************************************************************)
\* C30: while loadData awaits, both fetches have been started and channels and
\* epg are as they were when the load started; once loadData has finished,
\* loading is false, error is set exactly when a fetch of the load failed, a
\* failure leaves channels and epg as they were, and a success has set both from
\* the two results.
C30_CommittedTogether ==
    /\ apc = "await"
          => /\ chf.st # "none" /\ epf.st # "none"
             /\ <<achannels, aepg>> = atStart
    /\ apc = "finished"
          => /\ ~loading
             /\ error # NoError <=> (chf.st = "failed" \/ epf.st = "failed")
             /\ (chf.st = "failed" \/ epf.st = "failed") => <<achannels, aepg>> = atStart
             /\ error = NoError => (achannels = chf.val /\ aepg = epf.val)

C30_Witness ==
    /\ apc = "finished"
    /\ chf = Fulfilled(<<"mjh-tvnz-1", "mjh-three">>)
    /\ epf.st = "failed"
    /\ error = epf.val
    /\ achannels = <<>>
    /\ loads = 2

=============================================================================
